---- MODULE Spec2Model ----
(***************************************************************************)
(* Model of the BigCommerce catalog client (bigcommerce.go): the client    *)
(* configuration, request construction (NewRequest), the HTTP exchange     *)
(* (Do, CheckResponse) and the resource-service methods built on them.     *)
(*                                                                         *)
(* Strings that the code inspects character by character (store hash,     *)
(* resource type) are sequences of one-character tokens; fixed literals    *)
(* of the code are single tokens.  JSON documents are tagged values.       *)
(* Pointers whose aliasing matters (url.URL) are indices into a heap.      *)
(***************************************************************************)
EXTENDS Integers, Sequences, FiniteSets, TLC

VARIABLES client, urls, req, last, crashed

vars == <<client, urls, req, last, crashed>>

(***************************************************************************)
(* Bounds of the model.                                                    *)
(***************************************************************************)
MaxID == 1

(***************************************************************************)
(* Program constants.                                                      *)
(***************************************************************************)
defaultBaseURL == "https://api.bigcommerce.com/stores/"
apiVersion == "v3"
userAgent == "bigcommerce-go-sdk/1.0"
Timeout == 30

Nil == [t |-> "nil"]

(***************************************************************************)
(* JSON documents: tagged values.                                          *)
(***************************************************************************)
JNull == [t |-> "null"]
JStr(s) == [t |-> "str", s |-> s]
JBool(b) == [t |-> "bool", b |-> b]
JArr(a) == [t |-> "arr", a |-> a]
JObj(o) == [t |-> "obj", o |-> o]
HasKey(j, k) == j.t = "obj" /\ k \in DOMAIN j.o

(***************************************************************************)
(* net/url as far as the client uses it.                                   *)
(***************************************************************************)
HexDigits == {"0", "1", "2", "3", "4", "5", "6", "7", "8", "9",
              "a", "b", "c", "d", "e", "f", "A", "B", "C", "D", "E", "F"}

\* url.Parse rejects a "%" that is not followed by two hex digits.
HasInvalidEscape(s) ==
    \E i \in 1..Len(s) :
        /\ s[i] = "%"
        /\ ~(i + 2 <= Len(s) /\ s[i+1] \in HexDigits /\ s[i+2] \in HexDigits)

\* The position of the first "?" of a string, 0 if there is none.
queryMark(s) ==
    IF \E i \in 1..Len(s) : s[i] = "?"
    THEN CHOOSE i \in 1..Len(s) : s[i] = "?" /\ \A j \in 1..(i - 1) : s[j] # "?"
    ELSE 0

\* url.Parse cuts the string at its first "?": the path before it, the raw
\* query after it.  A raw query is a sequence of parts: the text url.Parse
\* found, or the name=value pairs that Encode wrote.
pathOf(s) == IF queryMark(s) = 0 THEN s ELSE SubSeq(s, 1, queryMark(s) - 1)
rawQueryOf(s) ==
    IF queryMark(s) = 0 THEN <<>> ELSE <<[raw |-> SubSeq(s, queryMark(s) + 1, Len(s))]>>

\* url.Parse: the URL value, or an error and no URL.  Only the path is
\* unescaped, so only an escape of the path can be invalid.
urlParse(s) ==
    IF HasInvalidEscape(pathOf(s))
    THEN [err |-> [t |-> "url.Error"], url |-> Nil]
    ELSE [err |-> Nil, url |-> [t |-> "url", str |-> pathOf(s), RawQuery |-> rawQueryOf(s)]]

\* URL.ResolveReference for a relative-path reference without dot segments
\* against a base whose path ends in "/": a NEW URL value with the query
\* of the reference, the base is left alone.
ResolveReference(base, rel) ==
    [t |-> "url", str |-> base.str \o rel.str, RawQuery |-> rel.RawQuery]

(***************************************************************************)
(* Go values that travel as request bodies, and encoding/json.Marshal on   *)
(* them.  A float64 is [nan, milli]: not-a-number, or milli/1000.  A JSON  *)
(* number carries its value in thousandths, so that decoding a fractional  *)
(* number into an int field can fail as it does in Go.                     *)
(***************************************************************************)
Float(m) == [nan |-> FALSE, milli |-> m]
NaN == [nan |-> TRUE, milli |-> 0]
JInt(n) == [t |-> "num", milli |-> n * 1000]
JFloat(f) == [t |-> "num", milli |-> f.milli]

\* encoding/json writes a string coerced to valid UTF-8: each invalid byte
\* becomes the replacement character U+FFFD.  "<FF>" stands for the byte
\* 0xFF, which is not valid UTF-8.
coerceUTF8(str) == IF str = "Toys<FF>" THEN "Toys<U+FFFD>" ELSE str

jsonString(str) == JStr(coerceUTF8(str))

\* Category (id,omitempty / parent_id / name; every other field is
\* omitempty and left at its zero value).
marshalCategory(c) ==
    LET keys == {"parent_id", "name"} \cup (IF c.ID # 0 THEN {"id"} ELSE {})
    IN  JObj([k \in keys |->
                CASE k = "id" -> JInt(c.ID)
                  [] k = "parent_id" -> JInt(c.ParentID)
                  [] k = "name" -> jsonString(c.Name)])

\* Brand (id,omitempty / name).
marshalBrand(b) ==
    LET keys == {"name"} \cup (IF b.ID # 0 THEN {"id"} ELSE {})
    IN  JObj([k \in keys |->
                CASE k = "id" -> JInt(b.ID)
                  [] k = "name" -> jsonString(b.Name)])

\* Product (id,omitempty / name / type / price).
marshalProduct(p) ==
    LET keys == {"name", "type", "price"} \cup (IF p.ID # 0 THEN {"id"} ELSE {})
    IN  JObj([k \in keys |->
                CASE k = "id" -> JInt(p.ID)
                  [] k = "name" -> jsonString(p.Name)
                  [] k = "type" -> jsonString(p.Type)
                  [] k = "price" -> JFloat(p.Price)])

\* OptionValue (id,omitempty / option_id / sort_order,omitempty).
marshalOptionValue(ov) ==
    JObj([k \in {"option_id"} \cup (IF ov.ID # 0 THEN {"id"} ELSE {})
                 \cup (IF ov.SortOrder # 0 THEN {"sort_order"} ELSE {}) |->
            CASE k = "id" -> JInt(ov.ID)
              [] k = "option_id" -> JInt(ov.OptionID)
              [] k = "sort_order" -> JInt(ov.SortOrder)])

\* Variant (id,omitempty / option_values).
marshalVariant(v) ==
    JObj([k \in {"option_values"} \cup (IF v.ID # 0 THEN {"id"} ELSE {}) |->
            CASE k = "id" -> JInt(v.ID)
              [] k = "option_values" ->
                    JArr([i \in 1..Len(v.OptionValues) |->
                            marshalOptionValue(v.OptionValues[i])])])

\* The other sub-resources of a product (id,omitempty).
marshalSubResource(b) ==
    CASE b.t = "OptionValue" -> marshalOptionValue(b)
      [] b.t = "Variant" -> marshalVariant(b)
      [] OTHER -> JObj([k \in (IF b.ID # 0 THEN {"id"} ELSE {}) |-> JInt(b.ID)])

\* json.NewEncoder(buf).Encode(body): the document written to the buffer,
\* or an error (a NaN float is an unsupported value).
jsonEncode(body) ==
    CASE body.t = "Category" -> [err |-> Nil, doc |-> marshalCategory(body)]
      [] body.t = "Brand" -> [err |-> Nil, doc |-> marshalBrand(body)]
      [] body.t = "Product" ->
            IF body.Price.nan
            THEN [err |-> [t |-> "json.UnsupportedValueError"], doc |-> Nil]
            ELSE [err |-> Nil, doc |-> marshalProduct(body)]
      [] body.t = "ids" ->
            [err |-> Nil,
             doc |-> JObj([k \in {body.key} |->
                            JArr([i \in 1..Len(body.ids) |-> JInt(body.ids[i])])])]
      [] body.t \in {"CustomField", "ProductImage", "ProductVideo", "ProductOption",
                     "OptionValue", "Variant", "Review", "PricingRule"} ->
            [err |-> Nil, doc |-> marshalSubResource(body)]
      [] body.t = "nilptr" -> [err |-> Nil, doc |-> JNull]

(***************************************************************************)
(* The client.                                                             *)
(***************************************************************************)
\* Heap cells of the url.URL objects: the one baseURL points to, the URL of
\* the request a caller of NewRequest holds, the URL of the request that is
\* local to a service method.
BaseCell == 1
ReqCell == 2
SvcCell == 3

\* NewClient: the error of url.Parse is discarded, so an unparsable store
\* hash leaves baseURL nil (pointer 0).
NewClient(storeHash, authToken) ==
    LET parsed == urlParse(<<defaultBaseURL>> \o storeHash \o <<"/", apiVersion, "/">>)
    IN  [c |-> [client |-> [Timeout |-> Timeout],
                baseURL |-> IF parsed.err.t = "nil" THEN BaseCell ELSE 0,
                storeHash |-> storeHash,
                authToken |-> authToken,
                userAgent |-> userAgent],
         heap |-> [i \in {BaseCell, ReqCell, SvcCell} |->
                     IF i = BaseCell THEN parsed.url ELSE Nil]]

\* http.NewRequestWithContext: an empty method means GET, a method that is
\* not an HTTP token and a nil context are errors.
HTTPTokens == {"GET", "POST", "PUT", "DELETE", "PATCH", "HEAD"}
validMethod(m) == m \in HTTPTokens

NoReq == [t |-> "noreq"]

\* Variant of requestHeader: the Accept header is not set.
requestHeader_noAccept(c) ==
    [h \in {"X-Auth-Token", "User-Agent", "Content-Type"} |->
        CASE h = "X-Auth-Token" -> c.authToken
          [] h = "User-Agent" -> c.userAgent
          [] h = "Content-Type" -> "application/json"]

\* The four headers NewRequest sets on every request.
requestHeader(c) ==
    [h \in {"X-Auth-Token", "User-Agent", "Content-Type", "Accept"} |->
        CASE h = "X-Auth-Token" -> c.authToken
          [] h = "User-Agent" -> c.userAgent
          [] h = "Content-Type" -> "application/json"
          [] h = "Accept" -> "application/json"]

\* Variant of newRequestWithContext: the reference is resolved into the
\* url.URL object the Client holds, and the request points at that object.
newRequestWithContext_inPlace(c, heap, cell, ctx, m, rel, enc) ==
    IF enc.err.t # "nil"
    THEN [err |-> enc.err, req |-> NoReq, heap |-> heap, panic |-> FALSE]
    ELSE IF ~validMethod(m)
    THEN [err |-> [t |-> "http.invalidMethod"], req |-> NoReq, heap |-> heap, panic |-> FALSE]
    ELSE IF ctx = "nil"
    THEN [err |-> [t |-> "http.nilContext"], req |-> NoReq, heap |-> heap, panic |-> FALSE]
    ELSE [err |-> Nil,
          req |-> [t |-> "req", Method |-> m, URL |-> c.baseURL, Body |-> enc.doc,
                   Header |-> requestHeader(c)],
          heap |-> [heap EXCEPT ![c.baseURL] = ResolveReference(heap[c.baseURL], rel.url)],
          panic |-> FALSE]

\* NewRequest, last part: json encoding of the body is done; the checks of
\* http.NewRequestWithContext, then the request with its headers.  The URL
\* of the request is a new object, allocated at cell.
newRequestWithContext(c, heap, cell, ctx, m, rel, enc) ==
    IF enc.err.t # "nil"
    THEN [err |-> enc.err, req |-> NoReq, heap |-> heap, panic |-> FALSE]
    ELSE IF ~validMethod(m)
    THEN [err |-> [t |-> "http.invalidMethod"], req |-> NoReq, heap |-> heap, panic |-> FALSE]
    ELSE IF ctx = "nil"
    THEN [err |-> [t |-> "http.nilContext"], req |-> NoReq, heap |-> heap, panic |-> FALSE]
    ELSE [err |-> Nil,
          req |-> [t |-> "req", Method |-> m, URL |-> cell, Body |-> enc.doc,
                   Header |-> requestHeader(c)],
          heap |-> [heap EXCEPT ![cell] = ResolveReference(heap[c.baseURL], rel.url)],
          panic |-> FALSE]

\* (Where a result is used several times it is bound once, x \in {e}, and
\* the operator is the one element of the set built from it.)
\* NewRequest, after url.Parse(urlStr): the error return, the nil
\* dereference of a nil baseURL in ResolveReference (panic), the encoding
\* of the body if there is one.
newRequestResolve(c, heap, cell, ctx, method, rel, body) ==
    IF rel.err.t # "nil"
    THEN [err |-> rel.err, req |-> NoReq, heap |-> heap, panic |-> FALSE]
    ELSE IF c.baseURL = 0
    THEN [err |-> Nil, req |-> NoReq, heap |-> heap, panic |-> TRUE]
    ELSE CHOOSE nr \in {newRequestWithContext(c, heap, cell, ctx,
                                               IF method = "" THEN "GET" ELSE method,
                                               rel, enc) :
                          enc \in {IF body.t # "nil" THEN jsonEncode(body)
                                   ELSE [err |-> Nil, doc |-> Nil]}} : TRUE

\* Client.NewRequest.  Returns the error, the request and the heap after
\* the call.
NewRequest(c, heap, cell, ctx, method, urlStr, body) ==
    CHOOSE nr \in {newRequestResolve(c, heap, cell, ctx, method, rel, body) :
                     rel \in {urlParse(urlStr)}} : TRUE

(***************************************************************************)
(* encoding/json decoding into the Go types of the client.                 *)
(***************************************************************************)
\* One struct field: JSON null leaves the field alone, a value of the wrong
\* JSON type is a type error that leaves the field alone.
decodeField(type, cur, jv) ==
    IF jv.t = "null"
    THEN [bad |-> FALSE, val |-> IF type = "[]string" THEN <<>> ELSE cur]
    ELSE CASE type = "int" ->
            IF jv.t = "num" /\ jv.milli % 1000 = 0
            THEN [bad |-> FALSE, val |-> jv.milli \div 1000]
            ELSE [bad |-> TRUE, val |-> cur]
      [] type = "float" ->
            IF jv.t = "num"
            THEN [bad |-> FALSE, val |-> Float(jv.milli)]
            ELSE [bad |-> TRUE, val |-> cur]
      [] type = "string" ->
            IF jv.t = "str"
            THEN [bad |-> FALSE, val |-> jv.s]
            ELSE [bad |-> TRUE, val |-> cur]
      [] type = "[]string" ->
            IF jv.t = "arr"
            THEN [bad |-> \E i \in 1..Len(jv.a) : jv.a[i].t \notin {"str", "null"},
                  val |-> [i \in 1..Len(jv.a) |->
                             IF jv.a[i].t = "str" THEN jv.a[i].s ELSE ""]]
            ELSE [bad |-> TRUE, val |-> cur]

\* The field of a struct that the key k of a JSON object decodes into.
decodeKey(schema, cur, jv, k) ==
    decodeField(schema[k].type, cur[schema[k].field], jv.o[k])

\* A struct: schema maps each JSON key to the Go field and its type; keys
\* the struct does not know are ignored, the decoder goes on after a type
\* error and reports it at the end.
decodeStruct(schema, cur, jv) ==
    CASE jv.t = "null" -> [bad |-> FALSE, val |-> cur]
      [] jv.t = "obj" ->
            [bad |-> \E k \in DOMAIN schema :
                        k \in DOMAIN jv.o /\ decodeKey(schema, cur, jv, k).bad,
             val |-> [f \in DOMAIN cur |->
                        IF \E k \in DOMAIN schema : schema[k].field = f /\ k \in DOMAIN jv.o
                        THEN decodeKey(schema, cur, jv,
                                       CHOOSE k \in DOMAIN schema :
                                           schema[k].field = f /\ k \in DOMAIN jv.o).val
                        ELSE cur[f]]]
      [] OTHER -> [bad |-> TRUE, val |-> cur]

\* Variant of CategorySchema: the Name field is tagged "title".
CategorySchema_titleTag ==
    [k \in {"id", "parent_id", "title"} |->
        CASE k = "id" -> [field |-> "ID", type |-> "int"]
          [] k = "parent_id" -> [field |-> "ParentID", type |-> "int"]
          [] k = "title" -> [field |-> "Name", type |-> "string"]]

CategorySchema ==
    [k \in {"id", "parent_id", "name"} |->
        CASE k = "id" -> [field |-> "ID", type |-> "int"]
          [] k = "parent_id" -> [field |-> "ParentID", type |-> "int"]
          [] k = "name" -> [field |-> "Name", type |-> "string"]]

BrandSchema ==
    [k \in {"id", "name"} |->
        CASE k = "id" -> [field |-> "ID", type |-> "int"]
          [] k = "name" -> [field |-> "Name", type |-> "string"]]

ProductSchema ==
    [k \in {"id", "name", "type", "price"} |->
        CASE k = "id" -> [field |-> "ID", type |-> "int"]
          [] k = "name" -> [field |-> "Name", type |-> "string"]
          [] k = "type" -> [field |-> "Type", type |-> "string"]
          [] k = "price" -> [field |-> "Price", type |-> "float"]]

MetafieldSchema ==
    [k \in {"id", "key", "value"} |->
        CASE k = "id" -> [field |-> "ID", type |-> "int"]
          [] k = "key" -> [field |-> "Key", type |-> "string"]
          [] k = "value" -> [field |-> "Value", type |-> "string"]]

ProductAggregatedInventorySchema ==
    [k \in {"product_id", "inventory_level"} |->
        CASE k = "product_id" -> [field |-> "ProductID", type |-> "int"]
          [] k = "inventory_level" -> [field |-> "InventoryLevel", type |-> "int"]]

\* Variant of ErrorSchema: the Errors field is tagged "error".
ErrorSchema_errorTag ==
    [k \in {"status", "title", "type", "error"} |->
        CASE k = "status" -> [field |-> "Status", type |-> "int"]
          [] k = "title" -> [field |-> "Title", type |-> "string"]
          [] k = "type" -> [field |-> "Type", type |-> "string"]
          [] k = "error" -> [field |-> "Errors", type |-> "[]string"]]

ErrorSchema ==
    [k \in {"status", "title", "type", "errors"} |->
        CASE k = "status" -> [field |-> "Status", type |-> "int"]
          [] k = "title" -> [field |-> "Title", type |-> "string"]
          [] k = "type" -> [field |-> "Type", type |-> "string"]
          [] k = "errors" -> [field |-> "Errors", type |-> "[]string"]]

PaginationSchema ==
    [k \in {"total"} |-> [field |-> "Total", type |-> "int"]]

ResponseSchema ==
    [k \in {"StatusCode"} |-> [field |-> "StatusCode", type |-> "int"]]

\* The zero values new(T) gives the service methods.
ZeroMeta == [Pagination |-> [Total |-> 0]]
ZeroCategory == [t |-> "Category", ID |-> 0, ParentID |-> 0, Name |-> ""]
ZeroBrand == [t |-> "Brand", ID |-> 0, Name |-> ""]
ZeroProduct == [t |-> "Product", ID |-> 0, Name |-> "", Type |-> "", Price |-> Float(0)]
ZeroMetafield == [t |-> "Metafield", ID |-> 0, Key |-> "", Value |-> ""]
ZeroProductAggregatedInventory ==
    [t |-> "ProductAggregatedInventory", ProductID |-> 0, InventoryLevel |-> 0]
\* The sub-resources of a product: custom field, image, video, option,
\* option value, variant, review, bulk pricing rule.  Of each the
\* identifier is modelled (id,omitempty), of an option value also option_id
\* and sort_order,omitempty, of a variant also option_values.
SubResources ==
    {"CustomField", "ProductImage", "ProductVideo", "ProductOption", "OptionValue",
     "Variant", "Review", "PricingRule"}

SubResourceSchema(T) ==
    [k \in {"id"} \cup (IF T = "OptionValue" THEN {"option_id", "sort_order"} ELSE {}) |->
        CASE k = "id" -> [field |-> "ID", type |-> "int"]
          [] k = "option_id" -> [field |-> "OptionID", type |-> "int"]
          [] k = "sort_order" -> [field |-> "SortOrder", type |-> "int"]]

ZeroSubResource(T) ==
    CASE T = "OptionValue" -> [t |-> T, ID |-> 0, OptionID |-> 0, SortOrder |-> 0]
      [] T = "Variant" -> [t |-> T, ID |-> 0, OptionValues |-> <<>>]
      [] OTHER -> [t |-> T, ID |-> 0]

ZeroOf(T) ==
    CASE T = "Category" -> ZeroCategory
      [] T = "Brand" -> ZeroBrand
      [] T = "Product" -> ZeroProduct
      [] T = "Metafield" -> ZeroMetafield
      [] T = "ProductAggregatedInventory" -> ZeroProductAggregatedInventory
      [] T \in SubResources -> ZeroSubResource(T)
SchemaOf(T) ==
    CASE T = "Category" -> CategorySchema
      [] T = "Brand" -> BrandSchema
      [] T = "Product" -> ProductSchema
      [] T = "Metafield" -> MetafieldSchema
      [] T = "ProductAggregatedInventory" -> ProductAggregatedInventorySchema
      [] T \in SubResources -> SubResourceSchema(T)
\* new(CategoryResponse) and the like: Data is one record or a list.
NewEnvelope(T, list) ==
    [t |-> "envelope", of |-> T, list |-> list,
     Data |-> IF list THEN <<>> ELSE ZeroOf(T), Meta |-> ZeroMeta]

\* Meta {pagination: {total, ...}}.
metaOf(d) == [bad |-> d.bad, val |-> [Pagination |-> d.val]]

decodeMeta(cur, jv) ==
    CASE jv.t = "null" -> [bad |-> FALSE, val |-> cur]
      [] jv.t = "obj" ->
            IF "pagination" \in DOMAIN jv.o
            THEN metaOf(decodeStruct(PaginationSchema, cur.Pagination, jv.o["pagination"]))
            ELSE [bad |-> FALSE, val |-> cur]
      [] OTHER -> [bad |-> TRUE, val |-> cur]

\* A list of decoded records.
listOf(ds) ==
    [bad |-> \E i \in 1..Len(ds) : ds[i].bad, val |-> [i \in 1..Len(ds) |-> ds[i].val]]

\* The Data member of an envelope: a record, or a list of records, each
\* decoded into a new zero record.
decodeData(v, jv) ==
    IF ~v.list \/ jv.t = "arr"
    THEN IF ~v.list THEN decodeStruct(SchemaOf(v.of), v.Data, jv)
         ELSE listOf([i \in 1..Len(jv.a) |-> decodeStruct(SchemaOf(v.of), ZeroOf(v.of), jv.a[i])])
    ELSE IF jv.t = "null" THEN [bad |-> FALSE, val |-> <<>>]
    ELSE [bad |-> TRUE, val |-> v.Data]

envelopeOf(v, d, m) ==
    [bad |-> d.bad \/ m.bad, val |-> [v EXCEPT !.Data = d.val, !.Meta = m.val]]

\* json.Unmarshal of one JSON value into an envelope.
decodeEnvelope(v, jv) ==
    CASE jv.t = "null" -> [bad |-> FALSE, val |-> v]
      [] jv.t = "obj" ->
            envelopeOf(v,
                       IF "data" \in DOMAIN jv.o THEN decodeData(v, jv.o["data"])
                       ELSE [bad |-> FALSE, val |-> v.Data],
                       IF "meta" \in DOMAIN jv.o THEN decodeMeta(v.Meta, jv.o["meta"])
                       ELSE [bad |-> FALSE, val |-> v.Meta])
      [] OTHER -> [bad |-> TRUE, val |-> v]

(***************************************************************************)
(* Response bodies: doc is the first JSON value of the body, "empty" for   *)
(* a body of no bytes, "garbage" for bytes that are not JSON; trailing     *)
(* says bytes follow the first value; broken says reading the stream       *)
(* fails before its end; eofSeen says a reader that stops after one JSON   *)
(* value happened to reach the end of the stream.                          *)
(***************************************************************************)
IsJSON(body) == body.doc.t \notin {"empty", "garbage"}

\* Response has no json tag, so a "response" key of the body decodes into
\* it: null clears the pointer, an object is decoded into the http.Response
\* it points to.
decodeResponseField(doc, er) ==
    IF ~HasKey(doc, "response") THEN [bad |-> FALSE, val |-> er.Response]
    ELSE IF doc.o["response"].t = "null" THEN [bad |-> FALSE, val |-> Nil]
    ELSE decodeStruct(ResponseSchema, er.Response, doc.o["response"])

errorResponseOf(d, rd) ==
    [err |-> IF d.bad \/ rd.bad THEN [t |-> "json.UnmarshalTypeError"] ELSE Nil,
     er |-> [d.val EXCEPT !.Response = rd.val]]

\* json.Unmarshal(data, errorResponse): the whole input must be one valid
\* JSON value; after a type error the record is filled as far as it goes.
unmarshalErrorResponse(body, er) ==
    IF ~IsJSON(body) \/ body.trailing
    THEN [err |-> [t |-> "json.SyntaxError"], er |-> er]
    ELSE errorResponseOf(decodeStruct(ErrorSchema, er, body.doc),
                         decodeResponseField(body.doc, er))

\* Variant of statusOK: the upper boundary 299 is left out.
statusOK_exclusive(c) == c >= 200 /\ c < 299

\* The success range of CheckResponse.
statusOK(c) == c >= 200 /\ c <= 299

\* &ErrorResponse{Response: r}.
newErrorResponse(r) ==
    [t |-> "ErrorResponse", Response |-> r, Status |-> 0, Title |-> "", Type |-> "",
     Errors |-> <<>>]

\* Variant of checkUnmarshalled: the error of json.Unmarshal is dropped.
checkUnmarshalled_ignoreError(r, u) ==
    [err |-> u.er,
     r |-> IF u.er.Response.t = "nil" THEN r ELSE u.er.Response,
     read |-> "eof"]

\* CheckResponse after json.Unmarshal: the decode error, or the
\* ErrorResponse.  r is returned as the decoder left the http.Response.
checkUnmarshalled(r, u) ==
    [err |-> IF u.err.t # "nil" THEN u.err ELSE u.er,
     r |-> IF u.er.Response.t = "nil" THEN r ELSE u.er.Response,
     read |-> "eof"]

\* Variant of CheckResponse: the body is unmarshalled whatever was read.
CheckResponse_unmarshalAlways(r) ==
    IF statusOK(r.StatusCode)
    THEN [err |-> Nil, r |-> r, read |-> "none"]
    ELSE checkUnmarshalled(r, unmarshalErrorResponse(r.Body, newErrorResponse(r)))

\* CheckResponse.  r is the *http.Response; the result carries r as the
\* call leaves it and how far the body was read.
CheckResponse(r) ==
    IF statusOK(r.StatusCode)
    THEN [err |-> Nil, r |-> r, read |-> "none"]
    ELSE IF ~r.Body.broken /\ r.Body.doc.t # "empty"
    THEN checkUnmarshalled(r, unmarshalErrorResponse(r.Body, newErrorResponse(r)))
    ELSE [err |-> newErrorResponse(r), r |-> r,
          read |-> IF r.Body.broken THEN "err" ELSE "eof"]

\* How far a decoder that stops after one JSON value has read.
decoderRead(body) ==
    IF body.eofSeen /\ ~body.trailing THEN "eof" ELSE "part"

decodedOf(d, body) ==
    [err |-> IF d.bad THEN [t |-> "json.UnmarshalTypeError"] ELSE Nil,
     v |-> d.val, read |-> decoderRead(body)]

\* json.NewDecoder(resp.Body).Decode(v): reads the first JSON value of the
\* stream and stores it in v; it does not read on to the end of the stream.
jsonDecode(body, v) ==
    IF body.broken THEN [err |-> [t |-> "read error"], v |-> v, read |-> "err"]
    ELSE IF body.doc.t = "empty" THEN [err |-> [t |-> "io.EOF"], v |-> v, read |-> "eof"]
    ELSE IF body.doc.t = "garbage"
    THEN [err |-> [t |-> "json.SyntaxError"], v |-> v, read |-> decoderRead(body)]
    ELSE decodedOf(decodeEnvelope(v, body.doc), body)

\* io.Copy(w, resp.Body): the bytes of the body, as they are, appended to
\* the writer; a broken stream delivers only a part of them.
ioCopy(w, body) ==
    IF body.broken
    THEN [err |-> [t |-> "read error"],
          v |-> [w EXCEPT !.buf = Append(@, [bytes |-> body, whole |-> FALSE])],
          read |-> "err"]
    ELSE [err |-> Nil,
          v |-> [w EXCEPT !.buf = Append(@, [bytes |-> body, whole |-> TRUE])],
          read |-> "eof"]

\* The request as it goes on the wire.
Wire(request, heap) ==
    [Method |-> request.Method, URL |-> heap[request.URL],
     Header |-> request.Header, Body |-> request.Body]

\* Variant of transportDo: a 429 or 5xx response is retried once.
transportDo_retry(request, heap, srv) ==
    IF srv.t = "neterr"
    THEN [err |-> [t |-> "transport"], resp |-> Nil, sends |-> <<Wire(request, heap)>>]
    ELSE [err |-> Nil,
          resp |-> [t |-> "resp", StatusCode |-> srv.StatusCode,
                    Request |-> Wire(request, heap), Body |-> srv.Body],
          sends |-> IF srv.StatusCode = 429 \/ srv.StatusCode >= 500
                    THEN <<Wire(request, heap), Wire(request, heap)>>
                    ELSE <<Wire(request, heap)>>]

\* c.client.Do(req): the request goes on the wire once; srv is what the
\* network does with it, a failure ("neterr") or a response.
transportDo(request, heap, srv) ==
    IF srv.t = "neterr"
    THEN [err |-> [t |-> "transport"], resp |-> Nil, sends |-> <<Wire(request, heap)>>]
    ELSE [err |-> Nil,
          resp |-> [t |-> "resp", StatusCode |-> srv.StatusCode,
                    Request |-> Wire(request, heap), Body |-> srv.Body],
          sends |-> <<Wire(request, heap)>>]

\* Variant of doDecode: no test for a nil target, which json rejects.
doDecode_noNilTest(v, body) ==
    IF v.t = "writer" THEN ioCopy(v, body)
    ELSE IF v.t = "nil"
    THEN [err |-> [t |-> "json.InvalidUnmarshalError"], v |-> v, read |-> "none"]
    ELSE jsonDecode(body, v)

\* The success branch of Do: nothing for a nil target, io.Copy for an
\* io.Writer, a JSON decode for every other target.
doDecode(v, body) ==
    IF v.t = "nil" THEN [err |-> Nil, v |-> v, read |-> "none"]
    ELSE IF v.t = "writer" THEN ioCopy(v, body)
    ELSE jsonDecode(body, v)

\* Do, success branch: the response with the error of the decode.
doReturn(sent, out) ==
    [t |-> "do", resp |-> sent.resp, err |-> out.err, v |-> out.v, sends |-> sent.sends,
     checked |-> TRUE, check |-> Nil, read |-> out.read, closed |-> TRUE]

\* Variant of doChecked: the body is closed on the success branch only.
doChecked_closeOnSuccess(sent, chk, v) ==
    IF chk.err.t # "nil"
    THEN [t |-> "do", resp |-> chk.r, err |-> chk.err, v |-> v, sends |-> sent.sends,
          checked |-> TRUE, check |-> chk.err, read |-> chk.read, closed |-> FALSE]
    ELSE doReturn(sent, doDecode(v, sent.resp.Body))

\* Variant of doChecked: the body of a failed response is decoded into the
\* target as well.
doChecked_decodeAnyway(sent, chk, v) ==
    IF chk.err.t # "nil"
    THEN [t |-> "do", resp |-> chk.r, err |-> chk.err, v |-> doDecode(v, sent.resp.Body).v,
          sends |-> sent.sends,
          checked |-> TRUE, check |-> chk.err, read |-> chk.read, closed |-> TRUE]
    ELSE doReturn(sent, doDecode(v, sent.resp.Body))

\* Do, after CheckResponse: its error is returned with the response.
doChecked(sent, chk, v) ==
    IF chk.err.t # "nil"
    THEN [t |-> "do", resp |-> chk.r, err |-> chk.err, v |-> v, sends |-> sent.sends,
          checked |-> TRUE, check |-> chk.err, read |-> chk.read, closed |-> TRUE]
    ELSE doReturn(sent, doDecode(v, sent.resp.Body))

\* Variant of doSent: a transport error is reported as an ErrorResponse.
doSent_asAPIError(sent, v) ==
    IF sent.err.t # "nil"
    THEN [t |-> "do", resp |-> Nil, err |-> newErrorResponse(Nil), v |-> v,
          sends |-> sent.sends,
          checked |-> FALSE, check |-> Nil, read |-> "none", closed |-> FALSE]
    ELSE doChecked(sent, CheckResponse(sent.resp), v)

\* Do, after c.client.Do(req): a transport error is returned at once, with
\* no response; otherwise Close is deferred and CheckResponse runs.
doSent(sent, v) ==
    IF sent.err.t # "nil"
    THEN [t |-> "do", resp |-> Nil, err |-> sent.err, v |-> v, sends |-> sent.sends,
          checked |-> FALSE, check |-> Nil, read |-> "none", closed |-> FALSE]
    ELSE CHOOSE d \in {doChecked(sent, chk, v) : chk \in {CheckResponse(sent.resp)}} : TRUE

\* Client.Do.  The result records, besides the returned (resp, err) and
\* the output target v, the requests that went on the wire (sends), whether
\* CheckResponse ran and what it returned (checked, check), how far the
\* body was read and whether the deferred Close ran.
Do(c, request, heap, v, srv) ==
    CHOOSE d \in {doSent(sent, v) : sent \in {transportDo(request, heap, srv)}} : TRUE

(***************************************************************************)
(* QueryParams.ToValues and url.Values.Encode.  A string of a query is a   *)
(* sequence of tokens, each a run of unreserved characters or one          *)
(* character that url.QueryEscape rewrites.  An optional boolean pointer   *)
(* is [set, val].                                                          *)
(***************************************************************************)
Unset == [set |-> FALSE, val |-> FALSE]
Ptr(b) == [set |-> TRUE, val |-> b]

ZeroQueryParams ==
    [Page |-> 0, Limit |-> 0, Direction |-> <<>>, Sort |-> <<>>, Include |-> <<>>,
     ID |-> <<>>, IDIn |-> <<>>, IDNotIn |-> <<>>, IDMin |-> 0, IDMax |-> 0,
     IDGreater |-> 0, IDLess |-> 0, Name |-> <<>>, SKU |-> <<>>,
     Price |-> Float(0), PriceMin |-> Float(0), PriceMax |-> Float(0),
     Weight |-> Float(0), WeightMin |-> Float(0), WeightMax |-> Float(0),
     Condition |-> <<>>, IsVisible |-> Unset, IsFeatured |-> Unset,
     CategoryID |-> <<>>, BrandID |-> <<>>, Keywords |-> <<>>, IsActive |-> Unset,
     DateCreated |-> <<>>, DateModified |-> <<>>]

\* strconv.Itoa, strconv.FormatBool.
Itoa(n) == <<ToString(n)>>
FormatBool(b) == IF b THEN <<"true">> ELSE <<"false">>

\* strconv.FormatFloat(f, 'f', 2, 64) of a positive value that is not
\* half-way between two hundredths: rounded to the nearest hundredth, two
\* fractional digits.
FormatFloat(f) ==
    LET cents == (f.milli + 5) \div 10
        frac == cents % 100
    IN  <<ToString(cents \div 100), ".",
          IF frac < 10 THEN "0" \o ToString(frac) ELSE ToString(frac)>>

\* Variant of addInt: the value is added whatever it is.
addInt_always(n) == <<Itoa(n)>>

\* if q.Page > 0 { values.Add("page", strconv.Itoa(q.Page)) }
addInt(n) == IF n > 0 THEN <<Itoa(n)>> ELSE <<>>

\* if q.Sort != "" { values.Add("sort", q.Sort) }
addString(str) == IF str # <<>> THEN <<str>> ELSE <<>>

\* if q.Price > 0 { values.Add("price", strconv.FormatFloat(...)) }; the
\* comparison is false for NaN.
addFloat(f) == IF ~f.nan /\ f.milli > 0 THEN <<FormatFloat(f)>> ELSE <<>>

\* Variant of addBool: the pointer is treated as a plain boolean.
addBool_plain(p) == IF p.set /\ p.val THEN <<FormatBool(TRUE)>> ELSE <<>>

\* if q.IsVisible != nil { values.Add("is_visible", strconv.FormatBool(*q.IsVisible)) }
addBool(p) == IF p.set THEN <<FormatBool(p.val)>> ELSE <<>>

\* Variant of addInts: the elements are added last to first.
addInts_reversed(l) == [i \in 1..Len(l) |-> Itoa(l[Len(l) + 1 - i])]

\* for _, id := range q.ID { values.Add("id", strconv.Itoa(id)) }
addInts(l) == [i \in 1..Len(l) |-> Itoa(l[i])]

\* for _, include := range q.Include { values.Add("include", include) }
addStrings(l) == l

\* The values ToValues adds under each parameter name, in the order of the
\* Add calls for that name.
ToValuesOf(q) ==
    [k \in {"page", "limit", "direction", "sort", "include", "id", "id:in",
            "id:not_in", "id:min", "id:max", "id:greater", "id:less", "name",
            "sku", "price", "price:min", "price:max", "weight", "weight:min",
            "weight:max", "condition", "is_visible", "is_featured",
            "categories", "brand_id", "keyword", "is_active", "date_created",
            "date_modified"} |->
        CASE k = "page" -> addInt(q.Page)
          [] k = "limit" -> addInt(q.Limit)
          [] k = "direction" -> addString(q.Direction)
          [] k = "sort" -> addString(q.Sort)
          [] k = "include" -> addStrings(q.Include)
          [] k = "id" -> addInts(q.ID)
          [] k = "id:in" -> addInts(q.IDIn)
          [] k = "id:not_in" -> addInts(q.IDNotIn)
          [] k = "id:min" -> addInt(q.IDMin)
          [] k = "id:max" -> addInt(q.IDMax)
          [] k = "id:greater" -> addInt(q.IDGreater)
          [] k = "id:less" -> addInt(q.IDLess)
          [] k = "name" -> addString(q.Name)
          [] k = "sku" -> addString(q.SKU)
          [] k = "price" -> addFloat(q.Price)
          [] k = "price:min" -> addFloat(q.PriceMin)
          [] k = "price:max" -> addFloat(q.PriceMax)
          [] k = "weight" -> addFloat(q.Weight)
          [] k = "weight:min" -> addFloat(q.WeightMin)
          [] k = "weight:max" -> addFloat(q.WeightMax)
          [] k = "condition" -> addString(q.Condition)
          [] k = "is_visible" -> addBool(q.IsVisible)
          [] k = "is_featured" -> addBool(q.IsFeatured)
          [] k = "categories" -> addInts(q.CategoryID)
          [] k = "brand_id" -> addInts(q.BrandID)
          [] k = "keyword" -> addString(q.Keywords)
          [] k = "is_active" -> addBool(q.IsActive)
          [] k = "date_created" -> addString(q.DateCreated)
          [] k = "date_modified" -> addString(q.DateModified)]

\* url.Values is a map from the names that received at least one Add to
\* their values.
valuesOf(all) == [k \in {n \in DOMAIN all : all[n] # <<>>} |-> all[k]]

\* QueryParams.ToValues.
ToValues(q) == valuesOf(ToValuesOf(q))

\* The parameter names in the order of the Add calls of ToValues.
DeclaredKeys ==
    <<"page", "limit", "direction", "sort", "include", "id", "id:in",
      "id:not_in", "id:min", "id:max", "id:greater", "id:less", "name",
      "sku", "price", "price:min", "price:max", "weight", "weight:min",
      "weight:max", "condition", "is_visible", "is_featured",
      "categories", "brand_id", "keyword", "is_active", "date_created",
      "date_modified">>

\* The parameter names in the byte order of Go's string comparison, in
\* which Encode sorts the keys of the map (":" is below "_" and the
\* letters).
SortedKeys ==
    <<"brand_id", "categories", "condition", "date_created", "date_modified",
      "direction", "id", "id:greater", "id:in", "id:less", "id:max", "id:min",
      "id:not_in", "include", "is_active", "is_featured", "is_visible",
      "keyword", "limit", "name", "page", "price", "price:max", "price:min",
      "sku", "sort", "weight", "weight:max", "weight:min">>

\* a < b for two parameter names.
keyRank(k) == CHOOSE i \in 1..Len(SortedKeys) : SortedKeys[i] = k
keyLess(a, b) == keyRank(a) < keyRank(b)

\* A parameter name as tokens.
KeyTokens(k) ==
    CASE k = "id:greater" -> <<"id", ":", "greater">>
      [] k = "id:in" -> <<"id", ":", "in">>
      [] k = "id:less" -> <<"id", ":", "less">>
      [] k = "id:max" -> <<"id", ":", "max">>
      [] k = "id:min" -> <<"id", ":", "min">>
      [] k = "id:not_in" -> <<"id", ":", "not_in">>
      [] k = "price:max" -> <<"price", ":", "max">>
      [] k = "price:min" -> <<"price", ":", "min">>
      [] k = "weight:max" -> <<"weight", ":", "max">>
      [] k = "weight:min" -> <<"weight", ":", "min">>
      [] OTHER -> <<k>>

\* url.QueryEscape: a space becomes "+", every other character outside
\* letters, digits, "-", "_", "." and "~" becomes %XX.
EscapeToken(tok) ==
    CASE tok = " " -> "+"
      [] tok = ":" -> "%3A"
      [] tok = "," -> "%2C"
      [] tok = "&" -> "%26"
      [] tok = "=" -> "%3D"
      [] tok = "%" -> "%25"
      [] tok = "/" -> "%2F"
      [] OTHER -> tok

RECURSIVE QueryEscape(_)
QueryEscape(s) ==
    IF s = <<>> THEN "" ELSE EscapeToken(Head(s)) \o QueryEscape(Tail(s))

\* The keys of the map in the order in which a range over the map yields
\* them; the Go runtime chooses that order, here it is the order of the
\* keys in the list order.
rangeKeys(values, order) == SelectSeq(order, LAMBDA k : k \in DOMAIN values)

\* slices.Sort(keys), as an insertion sort.
RECURSIVE insertKey(_, _)
insertKey(sorted, k) ==
    IF sorted = <<>> THEN <<k>>
    ELSE IF keyLess(k, Head(sorted)) THEN <<k>> \o sorted
    ELSE <<Head(sorted)>> \o insertKey(Tail(sorted), k)

RECURSIVE sortFrom(_)
sortFrom(keys) ==
    IF keys = <<>> THEN <<>> ELSE insertKey(sortFrom(Tail(keys)), Head(keys))

\* Variant of sortKeys: the keys are left in the order of the range.
sortKeys_none(keys) == keys

sortKeys(keys) == sortFrom(keys)

\* The name=value pairs of one key: the escaped name, and each value of
\* the key, escaped, in the order in which the values were added.
encodeKey(values, k) ==
    [j \in 1..Len(values[k]) |->
        [name |-> QueryEscape(KeyTokens(k)), value |-> QueryEscape(values[k][j])]]

RECURSIVE encodeKeys(_, _)
encodeKeys(values, keys) ==
    IF keys = <<>> THEN <<>>
    ELSE encodeKey(values, Head(keys)) \o encodeKeys(values, Tail(keys))

\* Variant of EncodeRanging: the keys are not sorted.
EncodeRanging_unsorted(values, order) == encodeKeys(values, rangeKeys(values, order))

\* url.Values.Encode when the range over the map yields the keys in the
\* given order: the keys are collected, sorted, and written as name=value
\* pairs; the model keeps the list of the pairs that Encode joins with "&".
EncodeRanging(values, order) == encodeKeys(values, sortKeys(rangeKeys(values, order)))

\* url.Values.Encode.
Encode(values) == EncodeRanging(values, DeclaredKeys)

(***************************************************************************)
(* The pattern of every resource-service method: build the request,       *)
(* return (nil, err) if that fails, attach the encoded query parameters    *)
(* if there are any, execute into a new envelope, return it with the       *)
(* error of Do.                                                            *)
(***************************************************************************)
NoDo == [t |-> "nodo"]
NoParams == [t |-> "nil"]
Params(q) == [t |-> "params", q |-> q]

\* Variant of serviceReturn: no envelope is returned with an error.
serviceReturn_nilOnError(heap, d) ==
    [panic |-> FALSE, ret |-> IF d.err.t # "nil" THEN Nil ELSE d.v, err |-> d.err,
     heap |-> heap, do |-> d, sent |-> d.sends]

serviceReturn(heap, d) ==
    [panic |-> FALSE, ret |-> d.v, err |-> d.err, heap |-> heap, do |-> d, sent |-> d.sends]

\* Variant of serviceDo: the method executes the request twice.
serviceDo_twice(c, request, heap, v, srv) ==
    serviceReturn(heap, [Do(c, request, heap, v, srv) EXCEPT !.sends = @ \o @])

\* new(T); _, err = s.client.Do(req, t); return t, err.
serviceDo(c, request, heap, v, srv) == serviceReturn(heap, Do(c, request, heap, v, srv))

\* Variant of withQuery: the parameters are not attached.
withQuery_skip(heap, request, params) == heap

\* if params != nil { req.URL.RawQuery = params.ToValues().Encode() }.
withQuery(heap, request, params) ==
    IF params.t # "nil"
    THEN [heap EXCEPT ![request.URL].RawQuery = Encode(ToValues(params.q))]
    ELSE heap

serviceRequest(c, nr, params, v, srv) ==
    IF nr.panic \/ nr.err.t # "nil"
    THEN [panic |-> nr.panic, ret |-> Nil, err |-> nr.err, heap |-> nr.heap,
          do |-> NoDo, sent |-> <<>>]
    ELSE serviceDo(c, nr.req, withQuery(nr.heap, nr.req, params), v, srv)

serviceCall(c, heap, ctx, method, path, body, params, v, srv) ==
    CHOOSE r \in {serviceRequest(c, nr, params, v, srv) :
                    nr \in {NewRequest(c, heap, SvcCell, ctx, method, path, body)}} : TRUE

\* Variant of inventoryQuery: only the first identifier is added.
inventoryQuery_firstOnly(productIDs) ==
    Encode(IF productIDs = <<>> THEN <<>>
           ELSE [k \in {"id:in"} |-> <<Itoa(productIDs[1])>>])

\* InventoryService.ListContext builds its query itself: one id:in entry
\* per product identifier, added to the (empty) query of the request URL.
inventoryQuery(productIDs) ==
    Encode(IF productIDs = <<>> THEN <<>>
           ELSE [k \in {"id:in"} |-> [i \in 1..Len(productIDs) |-> Itoa(productIDs[i])]])

inventoryRequest(c, nr, productIDs, v, srv) ==
    IF nr.panic \/ nr.err.t # "nil"
    THEN [panic |-> nr.panic, ret |-> Nil, err |-> nr.err, heap |-> nr.heap,
          do |-> NoDo, sent |-> <<>>]
    ELSE serviceDo(c, nr.req,
                   [nr.heap EXCEPT ![nr.req.URL].RawQuery = inventoryQuery(productIDs)],
                   v, srv)

inventoryList(c, heap, ctx, productIDs, v, srv) ==
    inventoryRequest(c, NewRequest(c, heap, SvcCell, ctx, "GET",
                                   <<"catalog/products/inventory">>, Nil),
                     productIDs, v, srv)

(***************************************************************************)
(* Inputs of the model.                                                    *)
(***************************************************************************)
MaxErrors == 2

StoreHashes == {<<"s", "1">>, <<"%", "z", "z">>}
AuthTokens == {"tokA", "tokB"}
Ctxs == {"background", "nil"}
IDs == 0..MaxID
ResourceTypes == {<<"product">>, <<"%", "z", "z">>, <<"%", "2", "0">>, <<"product", "?", "x">>}
StatusCodes == {199, 200, 299, 300, 422, 429, 500}

ErrorStrings == {"price is required", "name is required"}
ErrorLists == UNION {[1..n -> ErrorStrings] : n \in 0..MaxErrors}

\* Error bodies of the documented shape {status, title, type, errors}.
ErrorDocs ==
    {JObj([status |-> JInt(422), title |-> JStr("Validation Failed"),
           errors |-> JArr([i \in 1..Len(e) |-> JStr(e[i])])]) : e \in ErrorLists}
    \cup {JObj([status |-> JInt(404), title |-> JStr("Not Found"),
                type |-> JStr("about:blank"), errors |-> JArr(<<>>)])}

\* Other JSON bodies: a status of the wrong JSON type, a "response" key,
\* envelopes (one record, a list, a record with a mistyped id), an array.
OtherDocs ==
    {JObj([status |-> JStr("422"), title |-> JStr("Validation Failed")]),
     JObj([status |-> JInt(500), title |-> JStr("Oops"), response |-> JNull]),
     JObj([title |-> JStr("Oops"), response |-> JObj([StatusCode |-> JInt(200)])]),
     JObj([data |-> JObj([id |-> JInt(42), name |-> JStr("Toys"), parent_id |-> JInt(0)]),
           meta |-> JObj([pagination |-> JObj([total |-> JInt(1)])])]),
     JObj([data |-> JArr(<<JObj([id |-> JInt(1), name |-> JStr("A")])>>),
           meta |-> JObj([pagination |-> JObj([total |-> JInt(1)])])]),
     JObj([data |-> JObj([id |-> JStr("42"), name |-> JStr("Toys")])]),
     JArr(<<>>)}

Docs == ErrorDocs \cup OtherDocs \cup {[t |-> "empty"], [t |-> "garbage"]}

Body(doc, trailing, broken, eofSeen) ==
    [doc |-> doc, trailing |-> trailing, broken |-> broken, eofSeen |-> eofSeen]

Bodies ==
    {Body(d, FALSE, FALSE, e) : d \in Docs, e \in BOOLEAN}
    \cup {Body(d, TRUE, FALSE, FALSE) : d \in {x \in Docs : x.t = "obj" /\ "title" \notin DOMAIN x.o}}
    \cup {Body(d, FALSE, TRUE, FALSE) : d \in {[t |-> "empty"], [t |-> "garbage"]}}

\* What the network does with a request.
Outcomes ==
    {[t |-> "neterr"]}
    \cup {[t |-> "resp", StatusCode |-> c, Body |-> b] : c \in StatusCodes, b \in Bodies}

Category(id, name) == [t |-> "Category", ID |-> id, ParentID |-> 0, Name |-> name]
Product(id, name, price) ==
    [t |-> "Product", ID |-> id, Name |-> name, Type |-> "physical", Price |-> price]

Brand(id, name) == [t |-> "Brand", ID |-> id, Name |-> name]

Categories == {Category(0, "Toys"), Category(42, "Toys"), Category(0, "Toys<FF>")}
Brands == {Brand(0, "Acme"), Brand(3, "Toys<FF>")}
Products ==
    {Product(0, "Ball", Float(19990)), Product(0, "Ball", NaN),
     Product(7, "Toys<FF>", Float(0))}

\* A server that answers a create call with the record it was sent: status
\* 200 and the body {"data": <the request body>, "meta": {"pagination": {}}}.
EchoBody(doc) ==
    Body(JObj([data |-> doc, meta |-> JObj([pagination |-> JObj(<<>>)])]),
         FALSE, FALSE, TRUE)
echoOf(enc) ==
    IF enc.err.t = "nil"
    THEN {[t |-> "resp", StatusCode |-> 200, Body |-> EchoBody(enc.doc)]}
    ELSE {}
Echoes(record) == echoOf(jsonEncode(record))

QueryParamsValues ==
    {ZeroQueryParams,
     [ZeroQueryParams EXCEPT !.Page = 2, !.Limit = 50, !.Sort = <<"name">>,
                             !.Direction = <<"asc">>],
     [ZeroQueryParams EXCEPT !.IDIn = <<1, 2>>, !.IsVisible = Ptr(FALSE),
                             !.PriceMin = Float(1500), !.Name = <<"a", " ", "b">>]}
ParamsArgs == {NoParams} \cup {Params(q) : q \in QueryParamsValues}

NewWriter == [t |-> "writer", buf |-> <<>>]
Targets == {Nil, NewWriter, NewEnvelope("Category", FALSE)}

(***************************************************************************)
(* The state machine: a program that owns one Client and calls NewRequest, *)
(* Do and the service methods, one call at a time.  last is the record of  *)
(* the call that has just returned.                                        *)
(***************************************************************************)
Idle == [op |-> "none"]

Init ==
    /\ \E storeHash \in StoreHashes, authToken \in AuthTokens :
          \E n \in {NewClient(storeHash, authToken)} :
              client = n.c /\ urls = n.heap
    /\ req = NoReq
    /\ last = Idle
    /\ crashed = FALSE

CanCall == ~crashed /\ last.op = "none"

\* The caller calls client.NewRequest itself and keeps the request.
Client_NewRequest ==
    /\ CanCall
    /\ \E ctx \in Ctxs, method \in {"GET", "", "BAD METHOD"},
          urlStr \in {<<"catalog/brands">>, <<"%", "z", "z">>},
          body \in {Nil, Category(0, "Toys"), Product(0, "Ball", NaN)} :
          \E nr \in {NewRequest(client, urls, ReqCell, ctx, method, urlStr, body)} :
              /\ req' = IF nr.err.t = "nil" /\ ~nr.panic THEN nr.req ELSE req
              /\ urls' = nr.heap
              /\ crashed' = nr.panic
              /\ last' = [op |-> "NewRequest",
                          args |-> [ctx |-> ctx, method |-> method, urlStr |-> urlStr, body |-> body],
                          srv |-> Nil, vIn |-> Nil, ret |-> nr.req, err |-> nr.err,
                          do |-> NoDo, sent |-> <<>>]
    /\ UNCHANGED client

\* The caller executes a request it built with NewRequest.
Client_Do ==
    /\ CanCall
    /\ req # NoReq
    /\ \E v \in Targets, srv \in Outcomes :
          \E d \in {Do(client, req, urls, v, srv)} :
              last' = [op |-> "Do", args |-> [req |-> req], srv |-> srv, vIn |-> v,
                       ret |-> d.v, err |-> d.err, do |-> d, sent |-> d.sends]
    /\ req' = NoReq
    /\ UNCHANGED <<client, urls, crashed>>

\* What a service method leaves behind.
Returns(op, args, srv, vIn, r) ==
    /\ last' = [op |-> op, args |-> args, srv |-> srv, vIn |-> vIn,
                ret |-> r.ret, err |-> r.err, do |-> r.do, sent |-> r.sent]
    /\ urls' = r.heap
    /\ crashed' = r.panic
    /\ UNCHANGED <<client, req>>

ProductsService_ListContext ==
    /\ CanCall
    /\ \E ctx \in Ctxs, params \in ParamsArgs, srv \in Outcomes :
          LET v == NewEnvelope("Product", TRUE)
          IN  Returns("ProductsService.ListContext", [ctx |-> ctx, params |-> params], srv, v,
                      serviceCall(client, urls, ctx, "GET", <<"catalog/products">>,
                                  Nil, params, v, srv))

ProductsService_CreateContext ==
    /\ CanCall
    /\ \E ctx \in Ctxs, product \in Products :
        \E srv \in Outcomes \cup Echoes(product) :
          LET v == NewEnvelope("Product", FALSE)
          IN  Returns("ProductsService.CreateContext", [ctx |-> ctx, body |-> product], srv, v,
                      serviceCall(client, urls, ctx, "POST", <<"catalog/products">>,
                                  product, NoParams, v, srv))

CategoriesService_CreateContext ==
    /\ CanCall
    /\ \E ctx \in Ctxs, category \in Categories :
        \E srv \in Outcomes \cup Echoes(category) :
          LET v == NewEnvelope("Category", FALSE)
          IN  Returns("CategoriesService.CreateContext", [ctx |-> ctx, body |-> category], srv, v,
                      serviceCall(client, urls, ctx, "POST", <<"catalog/categories">>,
                                  category, NoParams, v, srv))

CategoriesService_ListContext ==
    /\ CanCall
    /\ \E ctx \in Ctxs, params \in ParamsArgs, srv \in Outcomes :
          LET v == NewEnvelope("Category", TRUE)
          IN  Returns("CategoriesService.ListContext", [ctx |-> ctx, params |-> params], srv, v,
                      serviceCall(client, urls, ctx, "GET", <<"catalog/categories">>,
                                  Nil, params, v, srv))

BrandsService_CreateContext ==
    /\ CanCall
    /\ \E ctx \in Ctxs, brand \in Brands :
        \E srv \in Outcomes \cup Echoes(brand) :
          LET v == NewEnvelope("Brand", FALSE)
          IN  Returns("BrandsService.CreateContext", [ctx |-> ctx, body |-> brand], srv, v,
                      serviceCall(client, urls, ctx, "POST", <<"catalog/brands">>,
                                  brand, NoParams, v, srv))

BrandsService_DeleteContext ==
    /\ CanCall
    /\ \E ctx \in Ctxs, id \in IDs, srv \in Outcomes :
          Returns("BrandsService.DeleteContext", [ctx |-> ctx, id |-> id], srv, Nil,
                  serviceCall(client, urls, ctx, "DELETE",
                              <<"catalog/brands/", ToString(id)>>, Nil, NoParams, Nil, srv))

MetafieldsService_ListContext ==
    /\ CanCall
    /\ \E ctx \in Ctxs, resourceType \in ResourceTypes, resourceID \in IDs,
          params \in {NoParams, Params(ZeroQueryParams)}, srv \in Outcomes :
          LET v == NewEnvelope("Metafield", TRUE)
          IN  Returns("MetafieldsService.ListContext",
                      [ctx |-> ctx, resourceType |-> resourceType,
                       resourceID |-> resourceID, params |-> params], srv, v,
                      serviceCall(client, urls, ctx, "GET",
                                  <<"catalog/">> \o resourceType
                                     \o <<"/", ToString(resourceID), "/metafields">>,
                                  Nil, params, v, srv))

RelatedProductsService_CreateContext ==
    /\ CanCall
    /\ \E ctx \in Ctxs, productID \in IDs, relatedProductIDs \in {<<>>, <<1, 1>>},
          srv \in Outcomes :
          Returns("RelatedProductsService.CreateContext",
                  [ctx |-> ctx, productID |-> productID, ids |-> relatedProductIDs], srv, Nil,
                  serviceCall(client, urls, ctx, "POST",
                              <<"catalog/products/", ToString(productID), "/related">>,
                              [t |-> "ids", key |-> "product_ids", ids |-> relatedProductIDs],
                              NoParams, Nil, srv))

InventoryService_ListContext ==
    /\ CanCall
    /\ \E ctx \in Ctxs, productIDs \in {<<>>, <<1, 2, 3>>, <<2, 2>>, <<0, -1>>}, srv \in Outcomes :
          LET v == NewEnvelope("ProductAggregatedInventory", TRUE)
          IN  Returns("InventoryService.ListContext", [ctx |-> ctx, ids |-> productIDs], srv, v,
                      inventoryList(client, urls, ctx, productIDs, v, srv))

\* The caller has looked at the result of the call and goes on; the URL
\* objects of requests that no longer exist are garbage.
Return ==
    /\ ~crashed
    /\ last.op # "none"
    /\ last' = Idle
    /\ urls' = [i \in DOMAIN urls |->
                  IF i = SvcCell \/ (i = ReqCell /\ req = NoReq) THEN Nil ELSE urls[i]]
    /\ UNCHANGED <<client, req, crashed>>

Next ==
    \/ Client_NewRequest
    \/ Client_Do
    \/ ProductsService_ListContext
    \/ ProductsService_CreateContext
    \/ CategoriesService_ListContext
    \/ CategoriesService_CreateContext
    \/ BrandsService_CreateContext
    \/ BrandsService_DeleteContext
    \/ MetafieldsService_ListContext
    \/ RelatedProductsService_CreateContext
    \/ InventoryService_ListContext
    \/ Return

Spec == Init /\ [][Next]_vars

(***************************************************************************)
(* The query encoder on its own: a program that holds a QueryParams value, *)
(* calls ToValues on it and encodes the result.  The QueryParams values    *)
(* are three base values with one field set to each value of its type.     *)
(***************************************************************************)
MaxInt == 2
MaxLen == 3

\* The fields of QueryParams by type, and the parameter name of each.
IntFields == {"Page", "Limit", "IDMin", "IDMax", "IDGreater", "IDLess"}
StringFields ==
    {"Direction", "Sort", "Name", "SKU", "Condition", "Keywords", "DateCreated",
     "DateModified"}
FloatFields == {"Price", "PriceMin", "PriceMax", "Weight", "WeightMin", "WeightMax"}
IntListFields == {"ID", "IDIn", "IDNotIn", "CategoryID", "BrandID"}
StringListFields == {"Include"}
BoolFields == {"IsVisible", "IsFeatured", "IsActive"}

ParamName ==
    [Page |-> "page", Limit |-> "limit", Direction |-> "direction", Sort |-> "sort",
     Include |-> "include", ID |-> "id", IDIn |-> "id:in", IDNotIn |-> "id:not_in",
     IDMin |-> "id:min", IDMax |-> "id:max", IDGreater |-> "id:greater",
     IDLess |-> "id:less", Name |-> "name", SKU |-> "sku", Price |-> "price",
     PriceMin |-> "price:min", PriceMax |-> "price:max", Weight |-> "weight",
     WeightMin |-> "weight:min", WeightMax |-> "weight:max", Condition |-> "condition",
     IsVisible |-> "is_visible", IsFeatured |-> "is_featured",
     CategoryID |-> "categories", BrandID |-> "brand_id", Keywords |-> "keyword",
     IsActive |-> "is_active", DateCreated |-> "date_created",
     DateModified |-> "date_modified"]

IntValues == (-1..MaxInt) \cup {50}
StringValues == {<<>>, <<"name">>, <<"asc">>, <<"a", " ", "b">>, <<"a", "&", "b", "=", "c">>}
FloatValues == {Float(-1000), Float(0), Float(4), Float(1500), Float(19990), NaN}
IntLists == UNION {[1..n -> 1..2] : n \in 0..MaxLen} \cup {<<1, 2, 3>>, <<0, -1>>}
StringLists ==
    UNION {[1..n -> {<<"variants">>, <<"images">>}] : n \in 0..2} \cup {<< <<>> >>}
BoolValues == {Unset, Ptr(TRUE), Ptr(FALSE)}

FieldValues(f) ==
    CASE f \in IntFields -> IntValues
      [] f \in StringFields -> StringValues
      [] f \in FloatFields -> FloatValues
      [] f \in IntListFields -> IntLists
      [] f \in StringListFields -> StringLists
      [] f \in BoolFields -> BoolValues

\* Page 2, limit 50, sorted by name, ascending.
PageTwoQueryParams ==
    [ZeroQueryParams EXCEPT !.Page = 2, !.Limit = 50, !.Sort = <<"name">>,
                            !.Direction = <<"asc">>]

\* Every field set.
FullQueryParams ==
    [Page |-> 1, Limit |-> 2, Direction |-> <<"desc">>, Sort |-> <<"id">>,
     Include |-> << <<"variants">> >>, ID |-> <<7>>, IDIn |-> <<8, 9>>, IDNotIn |-> <<10>>,
     IDMin |-> 3, IDMax |-> 4, IDGreater |-> 5, IDLess |-> 6,
     Name |-> <<"n">>, SKU |-> <<"s">>,
     Price |-> Float(1000), PriceMin |-> Float(2000), PriceMax |-> Float(3000),
     Weight |-> Float(4000), WeightMin |-> Float(5000), WeightMax |-> Float(6000),
     Condition |-> <<"new">>, IsVisible |-> Ptr(TRUE), IsFeatured |-> Ptr(FALSE),
     CategoryID |-> <<11>>, BrandID |-> <<12>>, Keywords |-> <<"k">>,
     IsActive |-> Ptr(TRUE), DateCreated |-> <<"2024-01-01">>,
     DateModified |-> <<"2024-01-02">>]

QueryBases == {ZeroQueryParams, PageTwoQueryParams, FullQueryParams}

QueryInputs ==
    {[b EXCEPT ![f] = v] : <<b, f, v>> \in
        UNION {{<<b, f, v>> : v \in FieldValues(f)} : <<b, f>> \in QueryBases \X DOMAIN ParamName}}

\* Orders in which a range over the map of ToValues may yield its keys.
Reversed(keys) == [i \in 1..Len(keys) |-> keys[Len(keys) + 1 - i]]
RangeOrders == {DeclaredKeys, SortedKeys, Reversed(SortedKeys), Reversed(DeclaredKeys)}

InitQuery ==
    /\ \E n \in {NewClient(<<"s", "1">>, "tokA")} : client = n.c /\ urls = n.heap
    /\ req = NoReq
    /\ crashed = FALSE
    /\ \E q \in QueryInputs : last = [op |-> "QueryParams", q |-> q]

\* values := q.ToValues()
QueryParams_ToValues ==
    /\ last.op = "QueryParams"
    /\ last' = [op |-> "ToValues", q |-> last.q, values |-> ToValues(last.q)]
    /\ UNCHANGED <<client, urls, req, crashed>>

\* values.Encode(), and the encoding of the same QueryParams once more;
\* each of the two goes over its map in an order of its own.
Values_Encode ==
    /\ last.op = "ToValues"
    /\ \E first \in RangeOrders, second \in RangeOrders :
          last' = [op |-> "Encode", q |-> last.q, values |-> last.values,
                   orders |-> <<first, second>>,
                   query |-> EncodeRanging(last.values, first),
                   again |-> EncodeRanging(ToValues(last.q), second)]
    /\ UNCHANGED <<client, urls, req, crashed>>

NextQuery ==
    \/ QueryParams_ToValues
    \/ Values_Encode

SpecQuery == InitQuery /\ [][NextQuery]_vars

(***************************************************************************)
(* Properties.                                                             *)
(***************************************************************************)
\* The call that has just returned went through Do / received a response.
DoRan == last.op # "none" /\ last.do.t = "do"
GotResponse == DoRan /\ last.srv.t = "resp"
Non2xx == GotResponse /\ ~(last.srv.StatusCode >= 200 /\ last.srv.StatusCode <= 299)
Is2xx == GotResponse /\ last.srv.StatusCode >= 200 /\ last.srv.StatusCode <= 299

\* C1: for every response Do receives, CheckResponse returns nil exactly when
\* the status code is in [200,299], whatever the body is; a non-nil result
\* is the error of the call, and a call with a status in the range never
\* returns an ErrorResponse.
C1_StatusDecidesFailure ==
    GotResponse =>
        /\ (last.do.check.t = "nil") <=> (last.srv.StatusCode >= 200 /\ last.srv.StatusCode <= 299)
        /\ last.do.check.t # "nil" => (last.err.t # "nil" /\ last.err.t = last.do.check.t)
        /\ (last.srv.StatusCode >= 200 /\ last.srv.StatusCode <= 299) => last.err.t # "ErrorResponse"

\* C1 witness: the boundaries: a call that received 299 and succeeded ...
C1_Witness ==
    /\ GotResponse
    /\ last.srv.StatusCode = 299
    /\ last.srv.Body.doc.t = "garbage"
    /\ last.vIn.t = "nil"
    /\ last.err.t = "nil"

\* The error strings of a body of the documented shape, in order.
BodyErrors(doc) ==
    IF "errors" \in DOMAIN doc.o
    THEN [i \in 1..Len(doc.o["errors"].a) |-> doc.o["errors"].a[i].s]
    ELSE <<>>

\* A body that is exactly one JSON object of the documented error shape
\* {status, title, type, errors: [string...]}.
WellFormedErrorBody(body) ==
    /\ ~body.broken /\ ~body.trailing
    /\ body.doc.t = "obj"
    /\ DOMAIN body.doc.o \subseteq {"status", "title", "type", "errors"}
    /\ "status" \in DOMAIN body.doc.o => body.doc.o["status"].t = "num"
    /\ "title" \in DOMAIN body.doc.o => body.doc.o["title"].t = "str"
    /\ "type" \in DOMAIN body.doc.o => body.doc.o["type"].t = "str"
    /\ "errors" \in DOMAIN body.doc.o =>
          /\ body.doc.o["errors"].t = "arr"
          /\ \A i \in 1..Len(body.doc.o["errors"].a) : body.doc.o["errors"].a[i].t = "str"

\* C2: a non-2xx response with a well-formed error body yields an
\* ErrorResponse that refers to the response (method and URL of the request
\* that was sent, HTTP status code) and holds the status, the title and the
\* error strings of the body, all of them, in the body's order.
C2_ErrorResponseCarriesRequestAndBody ==
    (Non2xx /\ WellFormedErrorBody(last.srv.Body)) =>
        /\ last.err.t = "ErrorResponse"
        /\ last.err.Response.t = "resp"
        /\ last.err.Response.StatusCode = last.srv.StatusCode
        /\ last.err.Response.Request.Method = last.sent[1].Method
        /\ last.err.Response.Request.URL = last.sent[1].URL
        /\ last.op = "ProductsService.CreateContext" =>
              /\ last.err.Response.Request.Method = "POST"
              /\ last.err.Response.Request.URL.str
                    = <<defaultBaseURL>> \o client.storeHash \o <<"/", apiVersion, "/", "catalog/products">>
        /\ last.err.Status = last.srv.Body.doc.o["status"].milli \div 1000
        /\ last.err.Title = last.srv.Body.doc.o["title"].s
        /\ last.err.Errors = BodyErrors(last.srv.Body.doc)

\* C2 witness: create-product answered 422 with errors ["price is required"].
C2_Witness ==
    /\ last.op = "ProductsService.CreateContext"
    /\ Non2xx
    /\ last.srv.StatusCode = 422
    /\ WellFormedErrorBody(last.srv.Body)
    /\ last.err.t = "ErrorResponse"
    /\ last.err.Status = 422
    /\ last.err.Errors = <<"price is required">>

\* C3: one call of Do puts the request on the wire at most once, also after
\* a transport failure, a non-2xx status (429 and 5xx included) or a decode
\* failure, and returns to its caller: the process goes on.
C3_NoRetry ==
    DoRan => (Len(last.do.sends) <= 1 /\ Len(last.sent) <= 1 /\ ~crashed)

\* C3 witness: Do returned an error for a 429 response after one send.
C3_Witness ==
    /\ GotResponse
    /\ last.srv.StatusCode = 429
    /\ last.err.t # "nil"
    /\ Len(last.do.sends) = 1
    /\ ~crashed

\* The call that has just returned is a call of a resource-service method.
IsService == last.op \notin {"none", "NewRequest", "Do"}

\* The arguments of the service call let NewRequest build a request: the
\* client has a base URL, the context is not nil, the path parses and the
\* body can be encoded.
RequestBuildable ==
    /\ client.baseURL # 0
    /\ last.args.ctx # "nil"
    /\ "resourceType" \in DOMAIN last.args => ~HasInvalidEscape(pathOf(last.args.resourceType))
    /\ ("body" \in DOMAIN last.args /\ last.args.body.t = "Product") => ~last.args.body.Price.nan

\* C4 as stated: every call of a service method sends exactly one request.
C4_ExactlyOneExchange ==
    IsService => Len(last.sent) = 1

\* C4: a call of a service method sends exactly one request and goes
\* through Do when NewRequest can build the request from the arguments; it
\* sends none when NewRequest fails or panics; it never sends more than one.
C4_OneExchangeWhenRequestBuilt ==
    IsService =>
        /\ Len(last.sent) <= 1
        /\ RequestBuildable => (Len(last.sent) = 1 /\ DoRan /\ ~crashed)
        /\ ~RequestBuildable => (Len(last.sent) = 0 /\ ~DoRan
                                 /\ (last.err.t # "nil" \/ crashed))

\* C4 witness: a list call with query parameters exchanged one request.
C4_Witness ==
    /\ last.op = "ProductsService.ListContext"
    /\ last.args.params.t # "nil"
    /\ RequestBuildable
    /\ GotResponse
    /\ Len(last.sent) = 1

\* C5 as stated: whenever a response was received, its body has been read
\* to the end and closed when Do returns.
C5_BodyConsumedAndReleased ==
    GotResponse => (last.do.closed /\ last.do.read = "eof")

\* C5: whenever a response was received its body is closed when Do returns.
\* It has been read to the end for a non-2xx status and after a complete
\* io.Copy; it has not been read at all for a 2xx status with no target;
\* with a JSON target it has been read as far as the decoder got, which is
\* short of the end when data follows the first JSON value.
C5_BodyReleasedNotAlwaysConsumed ==
    GotResponse =>
        /\ last.do.closed
        /\ last.srv.Body.broken =>
              last.do.read = (IF Is2xx /\ last.vIn.t = "nil" THEN "none" ELSE "err")
        /\ (Non2xx /\ ~last.srv.Body.broken) => last.do.read = "eof"
        /\ (Is2xx /\ last.vIn.t = "nil") => last.do.read = "none"
        /\ (Is2xx /\ last.vIn.t = "writer" /\ ~last.srv.Body.broken) => last.do.read = "eof"
        /\ (Is2xx /\ last.vIn.t = "envelope" /\ ~last.srv.Body.broken) =>
              /\ last.do.read \in {"part", "eof"}
              /\ (last.srv.Body.trailing \/ ~last.srv.Body.eofSeen)
                    /\ last.srv.Body.doc.t # "empty" => last.do.read = "part"

\* C5 witness: a 2xx response with a body and no target: closed, not read.
C5_Witness ==
    /\ Is2xx
    /\ last.vIn.t = "nil"
    /\ last.srv.Body.doc.t = "obj"
    /\ last.do.closed
    /\ last.do.read = "none"

\* C6: for a 2xx response the target alone decides.  No target: success,
\* the body is not looked at.  An io.Writer: the bytes of the body are
\* appended to it as they are, JSON or not, and the call succeeds when the
\* copy is complete.  Any other target: the body is JSON-decoded into it,
\* and the call succeeds exactly when the decoding does; the category
\* envelope {"data":{"id":42,"name":"Toys",...}} gives ID 42, name "Toys".
C6_TargetDecidesSuccessHandling ==
    Is2xx =>
        /\ last.vIn.t = "nil" =>
              (last.err.t = "nil" /\ last.ret = last.vIn /\ last.do.read = "none")
        /\ last.vIn.t = "writer" =>
              /\ last.ret.buf = <<[bytes |-> last.srv.Body, whole |-> ~last.srv.Body.broken]>>
              /\ (last.err.t = "nil") <=> ~last.srv.Body.broken
        /\ last.vIn.t = "envelope" =>
              /\ (last.err.t = "nil") <=>
                    /\ ~last.srv.Body.broken
                    /\ IsJSON(last.srv.Body)
                    /\ ~decodeEnvelope(last.vIn, last.srv.Body.doc).bad
              /\ last.err.t = "nil" =>
                    last.ret = decodeEnvelope(last.vIn, last.srv.Body.doc).val
              /\ (/\ last.vIn.of = "Category"
                  /\ ~last.vIn.list
                  /\ ~last.srv.Body.broken
                  /\ last.srv.Body.doc
                        = JObj([data |-> JObj([id |-> JInt(42), name |-> JStr("Toys"),
                                               parent_id |-> JInt(0)]),
                                meta |-> JObj([pagination |-> JObj([total |-> JInt(1)])])]))
                    => (last.err.t = "nil" /\ last.ret.Data.ID = 42
                        /\ last.ret.Data.Name = "Toys")

\* C6 witness: create-category decoded the Toys envelope.
C6_Witness ==
    /\ last.op = "CategoriesService.CreateContext"
    /\ Is2xx
    /\ last.err.t = "nil"
    /\ last.ret.Data.ID = 42
    /\ last.ret.Data.Name = "Toys"

\* The response as Do received it.
Received ==
    [t |-> "resp", StatusCode |-> last.srv.StatusCode, Request |-> last.sent[1],
     Body |-> last.srv.Body]

\* json.Unmarshal of the whole body into the error record succeeds.
ErrorBodyDecodes ==
    /\ ~last.srv.Body.broken
    /\ unmarshalErrorResponse(last.srv.Body, newErrorResponse(Received)).err.t = "nil"

RawDecodeFailure == last.err.t \in {"json.SyntaxError", "json.UnmarshalTypeError"}

\* C7 as stated: a non-2xx body that does not decode gives the raw decode
\* failure, and an ErrorResponse is returned only for a body that decoded.
C7_UndecodableBodyIsRawFailure ==
    Non2xx =>
        /\ ~ErrorBodyDecodes => (RawDecodeFailure /\ last.err.t # "ErrorResponse")
        /\ last.err.t = "ErrorResponse" => ErrorBodyDecodes

\* C7: for a non-2xx response, a body that was read, is not empty and does
\* not decode gives the raw decode failure; an ErrorResponse is returned
\* exactly when the body decoded, was empty or could not be read, and in
\* the last two cases it holds nothing of the body.
C7_RawFailureForNonEmptyUndecodableBody ==
    Non2xx =>
        /\ (/\ ~last.srv.Body.broken
            /\ last.srv.Body.doc.t # "empty"
            /\ ~ErrorBodyDecodes) => RawDecodeFailure
        /\ (last.err.t = "ErrorResponse") <=>
              (ErrorBodyDecodes \/ last.srv.Body.doc.t = "empty" \/ last.srv.Body.broken)
        /\ (last.srv.Body.doc.t = "empty" \/ last.srv.Body.broken) =>
              last.err = newErrorResponse(Received)

\* C7 witness: a 500 with a body that is not JSON returned a syntax error.
C7_Witness ==
    /\ Non2xx
    /\ last.srv.StatusCode = 500
    /\ last.srv.Body.doc.t = "garbage"
    /\ ~last.srv.Body.broken
    /\ last.err.t = "json.SyntaxError"

\* C8: when the send fails and there is no response, Do returns the
\* transport's error, which is neither an ErrorResponse nor a decode error,
\* returns no response, does not call CheckResponse, reads and closes
\* nothing, and leaves the target as it was.
C8_TransportFailureReturnedAtOnce ==
    (DoRan /\ last.srv.t = "neterr") =>
        /\ last.err.t = "transport"
        /\ last.do.resp.t = "nil"
        /\ ~last.do.checked
        /\ last.do.read = "none"
        /\ ~last.do.closed
        /\ last.ret = last.vIn

\* C8 witness: Do with a writer target, the send failed.
C8_Witness ==
    /\ last.op = "Do"
    /\ last.srv.t = "neterr"
    /\ last.vIn.t = "writer"
    /\ last.err.t = "transport"
    /\ last.ret.buf = <<>>

\* The four headers, with the client's token and user agent.
FourHeaders(h) ==
    /\ {"X-Auth-Token", "User-Agent", "Content-Type", "Accept"} \subseteq DOMAIN h
    /\ h["X-Auth-Token"] = client.authToken
    /\ h["User-Agent"] = client.userAgent
    /\ h["Content-Type"] = "application/json"
    /\ h["Accept"] = "application/json"

\* C9: the request NewRequest returns, the request the caller keeps and
\* every request that goes on the wire, from Do or from a service method,
\* has the four headers: the client's token, the client's user agent, and
\* application/json as Content-Type and as Accept, with or without a body.
C9_FourHeadersAlwaysSet ==
    /\ (last.op = "NewRequest" /\ last.err.t = "nil" /\ ~crashed) => FourHeaders(last.ret.Header)
    /\ req # NoReq => FourHeaders(req.Header)
    /\ last.op # "none" => \A i \in 1..Len(last.sent) : FourHeaders(last.sent[i].Header)

\* C9 witness: NewRequest with an empty method and no body succeeded.
C9_Witness ==
    /\ last.op = "NewRequest"
    /\ last.err.t = "nil"
    /\ ~crashed
    /\ last.args.method = ""
    /\ last.args.body.t = "nil"
    /\ last.ret.Body.t = "nil"
    /\ FourHeaders(last.ret.Header)

\* C10 as stated: for every store identifier the client has the base URL
\* <root>/stores/<store-id>/v3/, after construction and after every call.
C10_BaseURLDerivedAndNeverMutated ==
    /\ client.baseURL = BaseCell
    /\ urls[BaseCell]
          = [t |-> "url",
             str |-> <<defaultBaseURL>> \o client.storeHash \o <<"/", apiVersion, "/">>,
             RawQuery |-> <<>>]

\* The path a service method asks for: its path template with the
\* arguments of the call interpolated.
ResourcePath ==
    CASE last.op = "ProductsService.ListContext" -> <<"catalog/products">>
      [] last.op = "ProductsService.CreateContext" -> <<"catalog/products">>
      [] last.op = "CategoriesService.ListContext" -> <<"catalog/categories">>
      [] last.op = "CategoriesService.CreateContext" -> <<"catalog/categories">>
      [] last.op = "BrandsService.CreateContext" -> <<"catalog/brands">>
      [] last.op = "BrandsService.DeleteContext" ->
            <<"catalog/brands/", ToString(last.args.id)>>
      [] last.op = "MetafieldsService.ListContext" ->
            <<"catalog/">> \o last.args.resourceType
                \o <<"/", ToString(last.args.resourceID), "/metafields">>
      [] last.op = "RelatedProductsService.CreateContext" ->
            <<"catalog/products/", ToString(last.args.productID), "/related">>
      [] last.op = "InventoryService.ListContext" -> <<"catalog/products/inventory">>

\* C11 as stated: the URL of every request a service method sends is the
\* base URL followed by the method's path with the arguments interpolated,
\* the string resource type of the metafield methods included.
C11_RequestURLIsBasePlusPath ==
    (IsService /\ Len(last.sent) = 1) =>
        last.sent[1].URL.str
            = <<defaultBaseURL>> \o client.storeHash \o <<"/", apiVersion, "/">> \o ResourcePath

\* ToValues has been applied to the QueryParams value of the state.
Applied == last.op \in {"ToValues", "Encode"}

\* The values a url.Values holds under a name.
Entries(values, k) == IF k \in DOMAIN values THEN values[k] ELSE <<>>

\* The name=value pairs of an encoded query that carry the (escaped) name
\* of the parameter k.
Pairs(query, k) == SelectSeq(query, LAMBDA p : p.name = QueryEscape(KeyTokens(k)))

\* C12: for every QueryParams value, a field that is at its default (0, the
\* empty string, an empty list, a nil boolean pointer) has no entry under
\* its parameter name in the result of ToValues nor in the encoded query;
\* the all-default value gives no entry at all and the empty query.
C12_DefaultFieldsOmitted ==
    Applied =>
        /\ \A f \in DOMAIN ParamName :
              last.q[f] = ZeroQueryParams[f] =>
                  /\ ParamName[f] \notin DOMAIN last.values
                  /\ last.op = "Encode" => Pairs(last.query, ParamName[f]) = <<>>
        /\ last.q = ZeroQueryParams =>
              /\ DOMAIN last.values = {}
              /\ last.op = "Encode" => last.query = <<>>

\* C12 witness: the all-default QueryParams encoded to the empty query.
C12_Witness ==
    /\ last.op = "Encode"
    /\ last.q = ZeroQueryParams
    /\ last.query = <<>>

ScalarFields == IntFields \cup StringFields \cup FloatFields

\* C13 as stated: a scalar field (integer, string, decimal) has exactly one
\* entry under its parameter name when its value is not the zero value of
\* its type, whatever the value is, and none when it is.
C13_NonZeroScalarAddsOneEntry ==
    Applied =>
        \A f \in ScalarFields :
            Len(Entries(last.values, ParamName[f]))
                = (IF last.q[f] # ZeroQueryParams[f] THEN 1 ELSE 0)

\* The strings a list-valued field holds, element by element.
Rendered(f, q) ==
    IF f \in IntListFields THEN [i \in 1..Len(q[f]) |-> <<ToString(q[f][i])>>] ELSE q[f]

\* C14: a list-valued field (Include, ID, IDIn, IDNotIn, CategoryID,
\* BrandID) with n elements has exactly n entries under its parameter name,
\* in the result of ToValues and in the encoded query: one per element, in
\* the order of the list, duplicates kept.
C14_ListFieldsOneEntryPerElement ==
    Applied =>
        \A f \in IntListFields \cup StringListFields :
            /\ Entries(last.values, ParamName[f]) = Rendered(f, last.q)
            /\ last.op = "Encode" =>
                  /\ Len(Pairs(last.query, ParamName[f])) = Len(last.q[f])
                  /\ \A i \in 1..Len(last.q[f]) :
                        Pairs(last.query, ParamName[f])[i].value
                            = QueryEscape(Rendered(f, last.q)[i])

\* C14 witness: IDIn = [2, 1, 2] encoded to three id:in pairs 2, 1, 2.
C14_Witness ==
    /\ last.op = "Encode"
    /\ last.q.IDIn = <<2, 1, 2>>
    /\ Len(Pairs(last.query, "id:in")) = 3
    /\ Pairs(last.query, "id:in")[1].value = "2"
    /\ Pairs(last.query, "id:in")[2].value = "1"
    /\ Pairs(last.query, "id:in")[3] = [name |-> "id%3Ain", value |-> "2"]

\* The call that has just returned is a list call that was given query
\* parameters and sent its request.
ListedWithParams ==
    /\ IsService
    /\ "params" \in DOMAIN last.args
    /\ last.args.params.t # "nil"
    /\ Len(last.sent) = 1

\* The query of the request that was sent.
SentQuery == last.sent[1].URL.RawQuery

\* The parameter name of a name=value pair of an encoded query.
KeyOf(p) ==
    CHOOSE k \in {ParamName[f] : f \in DOMAIN ParamName} : QueryEscape(KeyTokens(k)) = p.name

declaredRank(k) == CHOOSE i \in 1..Len(DeclaredKeys) : DeclaredKeys[i] = k

\* C15 as stated: in the query a list call attaches to its request, the
\* parameters appear in the declared order of the QueryParams fields.
C15_QueryInDeclaredFieldOrder ==
    ListedWithParams =>
        \A i, j \in 1..Len(SentQuery) :
            i < j => declaredRank(KeyOf(SentQuery[i])) <= declaredRank(KeyOf(SentQuery[j]))

\* C15: in the query a list call attaches to its request, the parameters
\* appear sorted by parameter name (byte order), not in the declared order
\* of the fields; the values of one name are adjacent and in the order in
\* which ToValues added them, and nothing else is in the query.
C15_QuerySortedByParameterName ==
    ListedWithParams =>
        /\ \A i, j \in 1..Len(SentQuery) :
              i < j => keyRank(KeyOf(SentQuery[i])) <= keyRank(KeyOf(SentQuery[j]))
        /\ \A f \in DOMAIN ParamName :
              /\ Len(Pairs(SentQuery, ParamName[f]))
                    = Len(Entries(ToValues(last.args.params.q), ParamName[f]))
              /\ \A i \in 1..Len(Pairs(SentQuery, ParamName[f])) :
                    Pairs(SentQuery, ParamName[f])[i].value
                        = QueryEscape(Entries(ToValues(last.args.params.q), ParamName[f])[i])
        /\ \A i \in 1..Len(SentQuery) :
              \E f \in DOMAIN ParamName : SentQuery[i].name = QueryEscape(KeyTokens(ParamName[f]))

\* C15 witness: a products list with IDIn, IsVisible, PriceMin and Name set
\* sent id:in, is_visible, name, price:min, in that order.
C15_Witness ==
    /\ last.op = "ProductsService.ListContext"
    /\ ListedWithParams
    /\ last.args.params.q.IDIn = <<1, 2>>
    /\ [i \in 1..Len(SentQuery) |-> SentQuery[i].name]
          = <<"id%3Ain", "id%3Ain", "is_visible", "name", "price%3Amin">>

\* C16: a list call with Page = 2, Limit = 50, Sort = "name", Direction =
\* "asc" and every other field at its default sends the query
\* direction=asc&limit=50&page=2&sort=name and no other parameter.
C16_PageTwoScenarioQuery ==
    (ListedWithParams /\ last.args.params.q = PageTwoQueryParams) =>
        SentQuery = <<[name |-> "direction", value |-> "asc"],
                      [name |-> "limit", value |-> "50"],
                      [name |-> "page", value |-> "2"],
                      [name |-> "sort", value |-> "name"]>>

\* C16 witness: CategoriesService.ListContext was called with these
\* parameters and its request went out with four parameters.
C16_Witness ==
    /\ last.op = "CategoriesService.ListContext"
    /\ ListedWithParams
    /\ last.args.params.q = PageTwoQueryParams
    /\ Len(SentQuery) = 4
    /\ SentQuery[1] = [name |-> "direction", value |-> "asc"]

\* C17: encoding a QueryParams value twice gives the same query, whatever
\* the order in which each encoding goes over its map of values; hence
\* values that are equal field by field encode to the same query.
C17_EncodingDeterministic ==
    last.op = "Encode" => last.query = last.again

\* C17 witness: two encodings of a value with every field set, the two
\* ranges going over the map in different orders.
C17_Witness ==
    /\ last.op = "Encode"
    /\ last.q = [FullQueryParams EXCEPT !.IDIn = <<1, 2, 3>>]
    /\ last.orders[1] # last.orders[2]
    /\ Len(last.query) = 31
    /\ last.query = last.again

\* C18: each three-state boolean filter (IsVisible, IsFeatured, IsActive)
\* has an entry exactly when its pointer is not nil: none when unset, one
\* with the value "true" for true and one with the value "false" for false,
\* in the result of ToValues and in the encoded query.
C18_OptionalBooleansThreeStates ==
    Applied =>
        \A f \in BoolFields :
            /\ ~last.q[f].set => Entries(last.values, ParamName[f]) = <<>>
            /\ (last.q[f].set /\ last.q[f].val) =>
                  Entries(last.values, ParamName[f]) = << <<"true">> >>
            /\ (last.q[f].set /\ ~last.q[f].val) =>
                  Entries(last.values, ParamName[f]) = << <<"false">> >>
            /\ last.op = "Encode" =>
                  Pairs(last.query, ParamName[f])
                      = (IF ~last.q[f].set THEN <<>>
                         ELSE <<[name |-> ParamName[f],
                                 value |-> IF last.q[f].val THEN "true" ELSE "false"]>>)

\* C18 witness: IsVisible set to false encoded to is_visible=false.
C18_Witness ==
    /\ last.op = "Encode"
    /\ last.q.IsVisible = Ptr(FALSE)
    /\ Pairs(last.query, "is_visible") = <<[name |-> "is_visible", value |-> "false"]>>

\* C19: the request InventoryService.ListContext sends for a list of n
\* product identifiers has a query of exactly n pairs, all named id:in
\* (written id%3Ain), with the identifiers in the order of the list,
\* duplicates kept, and nothing else; for the empty list the query is empty.
C19_InventoryQueryOneIdInPerProduct ==
    (last.op = "InventoryService.ListContext" /\ Len(last.sent) = 1) =>
        SentQuery = [i \in 1..Len(last.args.ids) |->
                        [name |-> "id%3Ain", value |-> ToString(last.args.ids[i])]]

\* C19 witness: inventory of the products 1, 2, 3.
C19_Witness ==
    /\ last.op = "InventoryService.ListContext"
    /\ last.args.ids = <<1, 2, 3>>
    /\ Len(last.sent) = 1
    /\ SentQuery = <<[name |-> "id%3Ain", value |-> "1"],
                     [name |-> "id%3Ain", value |-> "2"],
                     [name |-> "id%3Ain", value |-> "3"]>>

\* A create call whose request body was a record and whose response is the
\* server's echo of the body it was sent.
RoundTrip ==
    /\ IsService
    /\ "body" \in DOMAIN last.args
    /\ last.args.body.t \in {"Category", "Brand", "Product"}
    /\ Len(last.sent) = 1
    /\ GotResponse
    /\ last.srv.StatusCode = 200
    /\ last.srv.Body = EchoBody(last.sent[1].Body)

NumGoroutines == 2
Goroutines == 1..NumGoroutines

\* The url.URL object NewRequest allocates for the request of goroutine g.
CellOf(g) == BaseCell + g

\* The calls a goroutine may make: the method, path, body, parameters and
\* envelope of ProductsService.ListContext and CategoriesService.CreateContext.
ConcurrentCalls ==
    {[op |-> "ProductsService.ListContext", method |-> "GET",
      path |-> <<"catalog/products">>, body |-> Nil, params |-> p,
      v |-> NewEnvelope("Product", TRUE)] : p \in {NoParams, Params(PageTwoQueryParams)}}
    \cup {[op |-> "CategoriesService.CreateContext", method |-> "POST",
           path |-> <<"catalog/categories">>, body |-> c, params |-> NoParams,
           v |-> NewEnvelope("Category", FALSE)] : c \in {Category(0, "Toys")}}

ConcurrentOutcomes ==
    {[t |-> "neterr"]}
    \cup {[t |-> "resp", StatusCode |-> c, Body |-> Body(d, FALSE, FALSE, FALSE)] :
             c \in {200, 422},
             d \in {JObj([data |-> JObj([id |-> JInt(42), name |-> JStr("Toys"),
                                          parent_id |-> JInt(0)]),
                           meta |-> JObj([pagination |-> JObj([total |-> JInt(1)])])]),
                     JObj([data |-> JArr(<<JObj([id |-> JInt(1), name |-> JStr("A")])>>),
                           meta |-> JObj([pagination |-> JObj([total |-> JInt(1)])])])}}

Started == [pc |-> "start"]

InitConcurrent ==
    /\ \E storeHash \in StoreHashes :
          \E n \in {NewClient(storeHash, "tokA")} :
              /\ client = n.c
              /\ urls = [i \in BaseCell..CellOf(NumGoroutines) |->
                            IF i = BaseCell THEN n.heap[BaseCell] ELSE Nil]
    /\ req = [g \in Goroutines |-> NoReq]
    /\ last = [g \in Goroutines |-> Started]
    /\ crashed = FALSE

\* What goroutine g holds after NewRequest returned nr.
afterNewRequest(call, ctx, nr) ==
    [pc |-> IF nr.panic \/ nr.err.t # "nil" THEN "done" ELSE "built",
     call |-> call, ctx |-> ctx, srv |-> Nil, tr |-> Nil,
     ret |-> Nil, err |-> nr.err, sent |-> <<>>]

\* req, err := s.client.NewRequest(ctx, method, path, body)
Go_NewRequest(g) ==
    /\ ~crashed
    /\ last[g].pc = "start"
    /\ \E call \in ConcurrentCalls, ctx \in Ctxs :
          \E nr \in {NewRequest(client, urls, CellOf(g), ctx, call.method, call.path,
                                 call.body)} :
              /\ req' = [req EXCEPT ![g] = nr.req]
              /\ urls' = nr.heap
              /\ crashed' = nr.panic
              /\ last' = [last EXCEPT ![g] = afterNewRequest(call, ctx, nr)]
    /\ UNCHANGED client

\* if params != nil { req.URL.RawQuery = params.ToValues().Encode() }
Go_WithQuery(g) ==
    /\ ~crashed
    /\ last[g].pc = "built"
    /\ urls' = withQuery(urls, req[g], last[g].call.params)
    /\ last' = [last EXCEPT ![g].pc = "ready"]
    /\ UNCHANGED <<client, req, crashed>>

\* Do, first part: c.client.Do(req) puts the request on the wire.
Go_Send(g) ==
    /\ ~crashed
    /\ last[g].pc = "ready"
    /\ \E srv \in ConcurrentOutcomes :
          last' = [last EXCEPT ![g].pc = "sent", ![g].srv = srv,
                                ![g].tr = transportDo(req[g], urls, srv)]
    /\ UNCHANGED <<client, urls, req, crashed>>

\* What the service method returns once Do has returned d.
afterDo(l, d) == [l EXCEPT !.pc = "done", !.ret = d.v, !.err = d.err, !.sent = d.sends]

\* Do, second part, and the return of the service method.
Go_Receive(g) ==
    /\ ~crashed
    /\ last[g].pc = "sent"
    /\ last' = [last EXCEPT ![g] = afterDo(last[g], doSent(last[g].tr, last[g].call.v))]
    /\ UNCHANGED <<client, urls, req, crashed>>

NextConcurrent ==
    \E g \in Goroutines :
        \/ Go_NewRequest(g)
        \/ Go_WithQuery(g)
        \/ Go_Send(g)
        \/ Go_Receive(g)

SpecConcurrent == InitConcurrent /\ [][NextConcurrent]_vars

\* The same call made alone on a Client just constructed.
Alone(l) ==
    serviceCall(client, NewClient(client.storeHash, client.authToken).heap, l.ctx,
                l.call.method, l.call.path, l.call.body, l.call.params, l.call.v, l.srv)

\* C21: whatever the interleaving of the calls made concurrently on one
\* Client, no call writes a field of the Client (HTTP client, base URL
\* and the URL object it points to, store hash, token, user agent), and a
\* call that has returned has sent the request and returned the envelope
\* and error it would have sent and returned had it run alone against the
\* same outcome on the wire.
C21_ConcurrentCallsIndependent ==
    /\ \E n \in {NewClient(client.storeHash, "tokA")} :
          client = n.c /\ urls[BaseCell] = n.heap[BaseCell]
    /\ \A g \in Goroutines :
          last[g].pc = "done" /\ ~crashed =>
              /\ last[g].sent = Alone(last[g]).sent
              /\ last[g].ret = Alone(last[g]).ret
              /\ last[g].err = Alone(last[g]).err

\* Goroutine 1 has listed products with query parameters and decoded the
\* answer while goroutine 2, which built its request first, is between
\* NewRequest and the exchange.
C21_Witness ==
    /\ last[1].pc = "done"
    /\ last[1].call.params # NoParams
    /\ last[1].sent # <<>>
    /\ last[1].err.t = "nil"
    /\ last[2].pc = "ready"
    /\ last[2].call.op = "CategoriesService.CreateContext"

(***************************************************************************)
(* The seeding script (main.go): categories, brands, products, then for    *)
(* each product its custom fields, images, videos, options and variants,   *)
(* reviews and bulk pricing rules.  One step of the model is one API call   *)
(* with the code around it, or the entry of a function that draws a random *)
(* count.  Here last is the state of the script (where it is, its slices   *)
(* and counters, the lines logged by the last step) and req is the last    *)
(* API call it made.  The random data of the records (names, prices, ...)  *)
(* is left out.                                                            *)
(***************************************************************************)
StoreHash == <<"yourstorehash">>
AuthToken == "yourauthtoken"
NumCategories == 2
NumBrands == 2
NumProducts == 2
NumCustomFields == 2
MaxVariants == 2
MaxOptions == 2
MaxImages == 2
MaxVideos == 1
MaxReviews == 2
\* numValues := rand.Intn(3) + 2
MinValues == 2
MaxValues == 3

\* The identifiers the server gives the records of type T it creates: it
\* may give two products, or two options, the same identifier.
ServerIDs(T) ==
    CASE T = "Product" -> {7, 8}
      [] T = "ProductOption" -> {3, 4}
      [] T = "OptionValue" -> {5}
      [] OTHER -> {1}

\* What the server does with a request of the script that creates a T:
\* the network fails, it answers 500 with an empty body, it answers 200
\* with an envelope whose record has an identifier.
SeedOutcomes(T) ==
    {[t |-> "neterr"],
     [t |-> "resp", StatusCode |-> 500, Body |-> Body([t |-> "empty"], FALSE, FALSE, FALSE)]}
    \cup {[t |-> "resp", StatusCode |-> 200,
           Body |-> Body(JObj([data |-> JObj([id |-> JInt(n)])]), FALSE, FALSE, FALSE)] :
             n \in ServerIDs(T)}

EmptyMap == [k \in {} |-> <<>>]

\* The locals of the per-product functions before they are entered.
NoLocals ==
    [n |-> 0, i |-> 0, optionIDs |-> <<>>, optionValueMap |-> EmptyMap, optionID |-> 0,
     numValues |-> 0, j |-> 0, values |-> <<>>, created |-> <<>>]

\* Leaving a per-product function: its locals are gone.
leave(s) ==
    [s EXCEPT !.n = 0, !.i = 0, !.optionIDs = <<>>, !.optionValueMap = EmptyMap,
              !.optionID = 0, !.numValues = 0, !.j = 0, !.values = <<>>, !.created = <<>>]

\* A line of the log.
Line(msg, arg) == [msg |-> msg, arg |-> arg]

\* The Create call of a service, made by the script with the background
\* context.
seedCall(c, heap, T, path, body, srv) ==
    serviceCall(c, heap, "background", "POST", path, body, NoParams,
                NewEnvelope(T, FALSE), srv)

\* The record of an API call of the script: the function that made it, the
\* position p in productIDs and the identifier of the product it is for (0
\* in the creation phases), the indices of the loops around it, the body
\* passed, what went on the wire, what the method returned.
seedRequest(old, fn, s, productID, body, r) ==
    [t |-> "call", tick |-> 1 - old.tick, fn |-> fn, p |-> s.p, productID |-> productID,
     i |-> s.i, j |-> s.j, body |-> body, sent |-> r.sent, ret |-> r.ret, err |-> r.err]

NoCall == [t |-> "nocall", tick |-> 0]

InitSeed ==
    /\ \E n \in {NewClient(StoreHash, AuthToken)} : client = n.c /\ urls = n.heap
    /\ req = NoCall
    /\ crashed = FALSE
    /\ last = [pc |-> "createCategories", categoryIDs |-> <<>>, brandIDs |-> <<>>,
               productIDs |-> <<>>, p |-> 0, err |-> Nil, log |-> <<>>, skipped |-> {},
               n |-> 0, i |-> 0, optionIDs |-> <<>>, optionValueMap |-> EmptyMap,
               optionID |-> 0, numValues |-> 0, j |-> 0, values |-> <<>>, created |-> <<>>]

\* Variant of Fatalf: the failure is logged and main goes on.
Fatalf_goOn(s, next, msg, err) ==
    [s EXCEPT !.pc = next, !.i = 0, !.p = IF next = "addCustomFields" THEN 1 ELSE 0,
              !.err = err, !.log = <<Line(msg, err)>>]

\* log.Fatalf: the line is logged and the process exits.
Fatalf(s, next, msg, err) ==
    [s EXCEPT !.pc = "exit", !.err = err, !.log = <<Line(msg, err)>>]

\* main after createCategories, createBrands or createProducts returned
\* without error: the count is logged, the next phase begins; after
\* createProducts that is the loop over productIDs.
mainCreated(s, next, msg, ids) ==
    IF next = "addCustomFields" /\ ids = <<>>
    THEN [s EXCEPT !.pc = "finished", !.i = 0,
                   !.log = @ \o <<Line(msg, Len(ids)),
                                  Line("Finished creating store catalog data!", 0)>>]
    ELSE [s EXCEPT !.pc = next, !.i = 0, !.p = IF next = "addCustomFields" THEN 1 ELSE 0,
                   !.log = @ \o <<Line(msg, Len(ids))>>]

\* One iteration of the loop of createCategories, createBrands or
\* createProducts, and the return to main when the loop ends: an error
\* ends the function and the run, a success appends response.Data.ID.
appended(s, r, ids, num, next, what) ==
    IF r.err.t # "nil"
    THEN Fatalf(s, next, <<"Failed to create", what>>, r.err)
    ELSE IF s.i + 1 < num
    THEN [s EXCEPT ![ids] = Append(@, r.ret.Data.ID), !.i = @ + 1, !.err = Nil,
                   !.log = <<Line(<<"Created", what>>, r.ret.Data.ID)>>]
    ELSE mainCreated([s EXCEPT ![ids] = Append(@, r.ret.Data.ID), !.err = Nil,
                               !.log = <<Line(<<"Created", what>>, r.ret.Data.ID)>>],
                     next, <<"Created", what>>, Append(s[ids], r.ret.Data.ID))

createCategories ==
    /\ last.pc = "createCategories"
    /\ \E srv \in SeedOutcomes("Category") :
          \E r \in {seedCall(client, urls, "Category", <<"catalog/categories">>,
                             Category(0, "Toys"), srv)} :
              /\ req' = seedRequest(req, "createCategories", last, 0, Category(0, "Toys"), r)
              /\ last' = appended(last, r, "categoryIDs", NumCategories, "createBrands",
                                 "categories")
    /\ UNCHANGED <<client, urls, crashed>>

createBrands ==
    /\ last.pc = "createBrands"
    /\ \E srv \in SeedOutcomes("Brand") :
          \E r \in {seedCall(client, urls, "Brand", <<"catalog/brands">>,
                             Brand(0, "Acme"), srv)} :
              /\ req' = seedRequest(req, "createBrands", last, 0, Brand(0, "Acme"), r)
              /\ last' = appended(last, r, "brandIDs", NumBrands, "createProducts", "brands")
    /\ UNCHANGED <<client, urls, crashed>>

createProducts ==
    /\ last.pc = "createProducts"
    /\ \E srv \in SeedOutcomes("Product") :
          \E r \in {seedCall(client, urls, "Product", <<"catalog/products">>,
                             Product(0, "Ball", Float(19990)), srv)} :
              /\ req' = seedRequest(req, "createProducts", last, 0,
                                    Product(0, "Ball", Float(19990)), r)
              /\ last' = appended(last, r, "productIDs", NumProducts, "addCustomFields",
                                 "products")
    /\ UNCHANGED <<client, urls, crashed>>

\* Variant of stepAfter: videos are added before images.
stepAfter_videosFirst(fn) ==
    CASE fn = "addCustomFields" -> "addProductVideos"
      [] fn = "addProductVideos" -> "addProductImages"
      [] fn = "addProductImages" -> "addOptionsAndVariants"
      [] fn = "addOptionsAndVariants" -> "addProductReviews"
      [] fn = "addProductReviews" -> "addBulkPricingRules"
      [] fn = "addBulkPricingRules" -> "range"

\* The statement of the body of the loop over productIDs that follows the
\* call of fn; "range" is the end of the body.
stepAfter(fn) ==
    CASE fn = "addCustomFields" -> "addProductImages"
      [] fn = "addProductImages" -> "addProductVideos"
      [] fn = "addProductVideos" -> "addOptionsAndVariants"
      [] fn = "addOptionsAndVariants" -> "addProductReviews"
      [] fn = "addProductReviews" -> "addBulkPricingRules"
      [] fn = "addBulkPricingRules" -> "range"

\* The first statement of the body of the loop over productIDs.
FirstStep == "addCustomFields"

\* for _, productID := range productIDs: the next product, or the end of
\* the loop and the completion message.
range(s) ==
    IF s.p < Len(s.productIDs)
    THEN [s EXCEPT !.pc = FirstStep, !.p = @ + 1]
    ELSE [s EXCEPT !.pc = "finished",
                   !.log = @ \o <<Line("Finished creating store catalog data!", 0)>>]

\* main goes on with the statement after the call of fn.
goOn(s, fn) == IF stepAfter(fn) = "range" THEN range(s) ELSE [s EXCEPT !.pc = stepAfter(fn)]

\* Variant of failed: a failure of any step ends the iteration.
failed_continue(s, fn, err) ==
    range([s EXCEPT !.err = err,
                    !.log = <<Line(<<"Failed", fn>>, s.productIDs[s.p])>>,
                    !.skipped = IF fn = "addCustomFields" THEN @ \cup {s.p} ELSE @])

\* Variant of failed: a failure of custom fields is logged and the
\* iteration goes on.
failed_noContinue(s, fn, err) ==
    goOn([s EXCEPT !.err = err,
                   !.log = <<Line(<<"Failed", fn>>, s.productIDs[s.p])>>,
                   !.skipped = IF fn = "addCustomFields" THEN @ \cup {s.p} ELSE @], fn)

\* main after fn returned an error: the failure is logged; after
\* addCustomFields the iteration ends (continue), after the other
\* functions it goes on.  skipped remembers the positions of the products
\* whose iteration was ended.
failed(s, fn, err) ==
    IF fn = "addCustomFields"
    THEN range([s EXCEPT !.err = err,
                         !.log = <<Line(<<"Failed", fn>>, s.productIDs[s.p])>>,
                         !.skipped = @ \cup {s.p}])
    ELSE goOn([s EXCEPT !.err = err,
                        !.log = <<Line(<<"Failed", fn>>, s.productIDs[s.p])>>], fn)

\* main after fn returned err.  err of the state stays the error of the
\* last API call.
returned(s, fn, err) ==
    IF err.t # "nil" THEN failed(leave(s), fn, err)
    ELSE goOn([leave(s) EXCEPT !.log = <<>>], fn)

\* Variant of looped: a failed call is made again.
looped_retry(s, fn, r) ==
    IF r.err.t # "nil" THEN [s EXCEPT !.err = r.err, !.log = <<>>]
    ELSE IF s.i + 1 < s.n THEN [s EXCEPT !.i = @ + 1, !.err = Nil, !.log = <<>>]
    ELSE returned([s EXCEPT !.err = Nil], fn, Nil)

\* One iteration of the loop of a per-product function whose responses
\* are not used: an error ends the function, the last iteration too.
looped(s, fn, r) ==
    IF r.err.t # "nil" THEN returned(s, fn, r.err)
    ELSE IF s.i + 1 < s.n THEN [s EXCEPT !.i = @ + 1, !.err = Nil, !.log = <<>>]
    ELSE returned([s EXCEPT !.err = Nil], fn, Nil)

\* The entry of a per-product function that draws the count n of its loop:
\* no iteration, no request and a nil error if n is 0.
entered(s, fn, loop, n) ==
    IF n = 0 THEN returned(s, fn, Nil)
    ELSE [s EXCEPT !.pc = loop, !.n = n, !.i = 0, !.log = <<>>]

ProductPath(s, what) == <<"catalog/products/", ToString(s.productIDs[s.p]), what>>

\* A call of a per-product function whose response is not used.
Creates(fn, T, what) ==
    \E srv \in SeedOutcomes(T) :
        \E r \in {seedCall(client, urls, T, ProductPath(last, what), ZeroSubResource(T), srv)} :
            /\ req' = seedRequest(req, fn, last, last.productIDs[last.p], ZeroSubResource(T), r)
            /\ last' = looped(last, fn, r)

addCustomFields ==
    /\ last.pc = "addCustomFields"
    /\ \E srv \in SeedOutcomes("CustomField") :
        \E r \in {seedCall(client, urls, "CustomField", ProductPath(last, "/custom-fields"),
                           ZeroSubResource("CustomField"), srv)} :
            /\ req' = seedRequest(req, "addCustomFields", last, last.productIDs[last.p],
                                  ZeroSubResource("CustomField"), r)
            /\ last' = looped([last EXCEPT !.n = NumCustomFields], "addCustomFields", r)
    /\ UNCHANGED <<client, urls, crashed>>

addProductImages ==
    /\ last.pc = "addProductImages"
    /\ \E numImages \in 1..MaxImages :
          last' = entered(last, "addProductImages", "images", numImages)
    /\ UNCHANGED <<client, urls, req, crashed>>

ProductImagesService_CreateContext ==
    /\ last.pc = "images"
    /\ Creates("addProductImages", "ProductImage", "/images")
    /\ UNCHANGED <<client, urls, crashed>>

addProductVideos ==
    /\ last.pc = "addProductVideos"
    /\ \E numVideos \in 0..MaxVideos :
          last' = entered(last, "addProductVideos", "videos", numVideos)
    /\ UNCHANGED <<client, urls, req, crashed>>

VideosService_CreateContext ==
    /\ last.pc = "videos"
    /\ Creates("addProductVideos", "ProductVideo", "/videos")
    /\ UNCHANGED <<client, urls, crashed>>

addOptionsAndVariants ==
    /\ last.pc = "addOptionsAndVariants"
    /\ \E numOptions \in 0..MaxOptions :
          last' = entered(last, "addOptionsAndVariants", "options", numOptions)
    /\ UNCHANGED <<client, urls, req, crashed>>

\* After client.Options.CreateContext: an error ends the function;
\* otherwise the identifier of the response is appended to optionIDs and
\* the number of values is drawn.
optionCreated(s, r, numValues) ==
    IF r.err.t # "nil" THEN returned(s, "addOptionsAndVariants", r.err)
    ELSE [s EXCEPT !.pc = "optionValues", !.optionID = r.ret.Data.ID,
                   !.optionIDs = Append(@, r.ret.Data.ID), !.numValues = numValues,
                   !.j = 0, !.values = <<>>, !.err = Nil, !.log = <<>>]

OptionsService_CreateContext ==
    /\ last.pc = "options"
    /\ \E srv \in SeedOutcomes("ProductOption"), numValues \in MinValues..MaxValues :
        \E r \in {seedCall(client, urls, "ProductOption", ProductPath(last, "/options"),
                           ZeroSubResource("ProductOption"), srv)} :
            /\ req' = seedRequest(req, "addOptionsAndVariants", last,
                                  last.productIDs[last.p], ZeroSubResource("ProductOption"), r)
            /\ last' = optionCreated(last, r, numValues)
    /\ UNCHANGED <<client, urls, crashed>>

\* optionValue := OptionValue{OptionID: optionID, SortOrder: j, ...}
NewOptionValue(s) ==
    [t |-> "OptionValue", ID |-> 0, OptionID |-> s.optionID, SortOrder |-> s.j]

\* optionValueMap[optionID] = values
mapped(m, optionID, values) ==
    [k \in DOMAIN m \cup {optionID} |-> IF k = optionID THEN values ELSE m[k]]

\* The end of the body of the loop over the options, with the values of
\* the option: they go into the map; after the last option the number of
\* variants is drawn and the loop over the variants begins.  created is
\* the list of the values created for each option, in creation order.
optionDone(s, values, numVariants) ==
    IF s.i + 1 < s.n
    THEN [s EXCEPT !.pc = "options", !.i = @ + 1, !.j = 0, !.values = <<>>,
                   !.optionValueMap = mapped(@, s.optionID, values),
                   !.created = Append(@, values), !.err = Nil, !.log = <<>>]
    ELSE [s EXCEPT !.pc = "variants", !.i = 0, !.n = numVariants, !.j = 0, !.values = <<>>,
                   !.optionValueMap = mapped(@, s.optionID, values),
                   !.created = Append(@, values), !.err = Nil, !.log = <<>>]

\* Variant of valueCreated: the identifier of the response is not kept.
valueCreated_noID(s, r, ov, numVariants) ==
    IF r.err.t # "nil" THEN returned(s, "addOptionsAndVariants", r.err)
    ELSE IF s.j + 1 < s.numValues
    THEN [s EXCEPT !.j = @ + 1, !.values = Append(@, ov), !.err = Nil, !.log = <<>>]
    ELSE optionDone(s, Append(s.values, ov), numVariants)

\* After client.Options.CreateOptionValueContext: an error ends the
\* function; otherwise the value gets the identifier of the response and
\* is appended to values.
valueCreated(s, r, ov, numVariants) ==
    IF r.err.t # "nil" THEN returned(s, "addOptionsAndVariants", r.err)
    ELSE IF s.j + 1 < s.numValues
    THEN [s EXCEPT !.j = @ + 1, !.values = Append(@, [ov EXCEPT !.ID = r.ret.Data.ID]),
                   !.err = Nil, !.log = <<>>]
    ELSE optionDone(s, Append(s.values, [ov EXCEPT !.ID = r.ret.Data.ID]), numVariants)

OptionsService_CreateOptionValueContext ==
    /\ last.pc = "optionValues"
    /\ \E srv \in SeedOutcomes("OptionValue"), numVariants \in 1..MaxVariants :
        \E r \in {seedCall(client, urls, "OptionValue",
                           <<"catalog/products/", ToString(last.productIDs[last.p]),
                             "/options/", ToString(last.optionID), "/values">>,
                           NewOptionValue(last), srv)} :
            /\ req' = seedRequest(req, "addOptionsAndVariants", last,
                                  last.productIDs[last.p], NewOptionValue(last), r)
            /\ last' = valueCreated(last, r, NewOptionValue(last), numVariants)
    /\ UNCHANGED <<client, urls, crashed>>

\* The ways to draw one index per option: valueIndex := rand.Intn(len(values)).
ValueIndexes(s) ==
    {x \in [1..Len(s.optionIDs) -> 1..MaxValues] :
        \A k \in 1..Len(s.optionIDs) : x[k] <= Len(s.optionValueMap[s.optionIDs[k]])}

\* variantOptions: for each optionID of optionIDs the value drawn from
\* optionValueMap[optionID].
variantOptions(s, x) ==
    [k \in 1..Len(s.optionIDs) |-> s.optionValueMap[s.optionIDs[k]][x[k]]]

NewVariant(s, x) == [t |-> "Variant", ID |-> 0, OptionValues |-> variantOptions(s, x)]

VariantsService_CreateContext ==
    /\ last.pc = "variants"
    /\ \E srv \in SeedOutcomes("Variant"), x \in ValueIndexes(last) :
        \E r \in {seedCall(client, urls, "Variant", ProductPath(last, "/variants"),
                           NewVariant(last, x), srv)} :
            /\ req' = seedRequest(req, "addOptionsAndVariants", last,
                                  last.productIDs[last.p], NewVariant(last, x), r)
            /\ last' = looped(last, "addOptionsAndVariants", r)
    /\ UNCHANGED <<client, urls, crashed>>

addProductReviews ==
    /\ last.pc = "addProductReviews"
    /\ \E numReviews \in 0..MaxReviews :
          last' = entered(last, "addProductReviews", "reviews", numReviews)
    /\ UNCHANGED <<client, urls, req, crashed>>

ReviewsService_CreateContext ==
    /\ last.pc = "reviews"
    /\ Creates("addProductReviews", "Review", "/reviews")
    /\ UNCHANGED <<client, urls, crashed>>

\* The three tiers of addBulkPricingRules.
tiers ==
    <<[Min |-> 2, Max |-> 9, Amount |-> 5], [Min |-> 10, Max |-> 19, Amount |-> 10],
      [Min |-> 20, Max |-> 0, Amount |-> 15]>>

\* if rand.Float32() > 0.3 { return nil }, else the loop over the tiers.
addBulkPricingRules ==
    /\ last.pc = "addBulkPricingRules"
    /\ \E n \in {0, Len(tiers)} :
          last' = entered(last, "addBulkPricingRules", "rules", n)
    /\ UNCHANGED <<client, urls, req, crashed>>

BulkPricingRulesService_CreateContext ==
    /\ last.pc = "rules"
    /\ Creates("addBulkPricingRules", "PricingRule", "/bulk-pricing-rules")
    /\ UNCHANGED <<client, urls, crashed>>

NextSeed ==
    \/ createCategories
    \/ createBrands
    \/ createProducts
    \/ addCustomFields
    \/ addProductImages
    \/ ProductImagesService_CreateContext
    \/ addProductVideos
    \/ VideosService_CreateContext
    \/ addOptionsAndVariants
    \/ OptionsService_CreateContext
    \/ OptionsService_CreateOptionValueContext
    \/ VariantsService_CreateContext
    \/ addProductReviews
    \/ ReviewsService_CreateContext
    \/ addBulkPricingRules
    \/ BulkPricingRulesService_CreateContext

SpecSeed == InitSeed /\ [][NextSeed]_vars

\* Every API call returns and the process is scheduled: a step that can
\* be taken is taken.
SpecSeedFair == SpecSeed /\ WF_vars(NextSeed)

\* The last API call was one of createCategories, createBrands or
\* createProducts and returned an error.
CreationFailed ==
    /\ req.t = "call"
    /\ req.fn \in {"createCategories", "createBrands", "createProducts"}
    /\ last.err.t # "nil"

\* The completion message is among the lines just logged.
Completed == \E k \in 1..Len(last.log) : last.log[k].msg = "Finished creating store catalog data!"

\* C22: in the seeding script, once a create-category, create-brand or
\* create-product call has returned an error the run is over: the failure
\* is logged by log.Fatalf, the process has exited, the completion
\* message is not logged, and from then on no API call is made and
\* nothing changes any more.
C22_CreationFailureAborts ==
    /\ [](CreationFailed =>
            /\ last.pc = "exit"
            /\ ~Completed
            /\ \E k \in 1..Len(last.log) : last.log[k].msg[1] = "Failed to create")
    /\ [][CreationFailed => req' = req /\ last' = last]_vars

\* The second create-product call failed after every category and every
\* brand had been created.
C22_Witness ==
    /\ CreationFailed
    /\ req.fn = "createProducts"
    /\ Len(last.categoryIDs) = NumCategories
    /\ Len(last.brandIDs) = NumBrands
    /\ Len(last.productIDs) = 1
    /\ last.pc = "exit"

LaterSteps ==
    {"addProductImages", "addProductVideos", "addOptionsAndVariants", "addProductReviews",
     "addBulkPricingRules"}

StepRank(fn) ==
    CASE fn = "addCustomFields" -> 1
      [] fn = "addProductImages" -> 2
      [] fn = "addProductVideos" -> 3
      [] fn = "addOptionsAndVariants" -> 4
      [] fn = "addProductReviews" -> 5
      [] fn = "addBulkPricingRules" -> 6
      [] OTHER -> 0

\* The last API call was made by fn for the product at position p and
\* returned an error.
StepFailed(fn, p) ==
    /\ req.t = "call"
    /\ req.fn = fn
    /\ req.p = p
    /\ last.err.t # "nil"

\* main has just logged the failure of fn for the product at position p.
FailureLogged(fn, p) ==
    \E k \in 1..Len(last.log) : last.log[k] = Line(<<"Failed", fn>>, last.productIDs[p])

\* The function of main.go the script is in.
FnOf(pc) ==
    CASE pc = "images" -> "addProductImages"
      [] pc = "videos" -> "addProductVideos"
      [] pc \in {"options", "optionValues", "variants"} -> "addOptionsAndVariants"
      [] pc = "reviews" -> "addProductReviews"
      [] pc = "rules" -> "addBulkPricingRules"
      [] OTHER -> pc

InProductLoop == FnOf(last.pc) \in LaterSteps \cup {FirstStep}

\* In the state s of the script the iteration for the product at position
\* p is over: the loop is at the next product, or after the last product
\* the run has ended with the completion message.
IterationEnded(s, p) ==
    \/ p < NumProducts /\ s.p = p + 1 /\ s.pc = FirstStep
    \/ /\ p = NumProducts
       /\ s.pc = "finished"
       /\ \E k \in 1..Len(s.log) : s.log[k].msg = "Finished creating store catalog data!"

\* C23: in the seeding script a failure while adding images, videos,
\* options and variants, reviews or bulk pricing rules for the product at
\* position p is logged by the step that meets it and does not end the
\* run: that step leaves the script at the function that follows the
\* failed one for p (after bulk pricing rules, at the next product or at
\* the completion message); from any function of the loop the script
\* moves only to the function that follows it for the same product, or
\* from the last one (and from failed custom fields) to the next product,
\* so that every later function and every later product is reached; and
\* after such a failure the run does end with the completion message.
C23_LaterStepFailureDoesNotStop ==
    /\ [][\A fn \in LaterSteps, p \in 1..NumProducts :
            req'.tick # req.tick /\ StepFailed(fn, p)' =>
                /\ FailureLogged(fn, p)'
                /\ IF fn = "addBulkPricingRules" THEN IterationEnded(last', p)
                   ELSE /\ last'.p = p
                        /\ StepRank(last'.pc) = StepRank(fn) + 1]_vars
    /\ [][InProductLoop /\ (FnOf(last'.pc) # FnOf(last.pc) \/ last'.p # last.p) =>
            \/ /\ last'.p = last.p
               /\ StepRank(FnOf(last'.pc)) = StepRank(FnOf(last.pc)) + 1
            \/ /\ \/ FnOf(last.pc) = "addBulkPricingRules"
                  \/ FnOf(last.pc) = FirstStep /\ last'.err.t # "nil"
               /\ IterationEnded(last', last.p)]_vars
    /\ (\E fn \in LaterSteps, p \in 1..NumProducts : StepFailed(fn, p))
           ~> (last.pc = "finished" /\ Completed)

\* Adding images has failed for the first product and the script is about
\* to add its videos.
C23_Witness ==
    /\ StepFailed("addProductImages", 1)
    /\ FailureLogged("addProductImages", 1)
    /\ last.pc = "addProductVideos"
    /\ last.p = 1

\* The phase of the run a function belongs to: the three creation loops,
\* then the loop over the products.
PhaseRank(fn) ==
    CASE fn = "createCategories" -> 1
      [] fn = "createBrands" -> 2
      [] fn = "createProducts" -> 3
      [] OTHER -> 4

\* This step makes an API call.
Issues == req'.tick # req.tick

\* C24: the seeding script makes its API calls in phase order, category
\* calls, then brand calls, then product calls, then the calls for the
\* sub-resources of the products (no call of an earlier phase follows a
\* call of a later one); a sub-resource call is made only when
\* NumCategories categories, NumBrands brands and NumProducts products
\* have been created without error; the products are served in the order
\* of their creation, and the calls for one product come in the order
\* custom fields, images, videos, options and variants, reviews, bulk
\* pricing rules.
C24_PhaseOrder ==
    /\ [](req.t = "call" /\ PhaseRank(req.fn) = 4 =>
            /\ Len(last.categoryIDs) = NumCategories
            /\ Len(last.brandIDs) = NumBrands
            /\ Len(last.productIDs) = NumProducts
            /\ req.p \in 1..NumProducts
            /\ req.productID = last.productIDs[req.p])
    /\ [][Issues /\ req.t = "call" =>
            /\ PhaseRank(req'.fn) >= PhaseRank(req.fn)
            /\ req'.p >= req.p
            /\ req'.p = req.p => StepRank(req'.fn) >= StepRank(req.fn)]_vars
    /\ [](req.t = "call" =>
            /\ req.fn = "createBrands" => Len(last.categoryIDs) = NumCategories
            /\ req.fn = "createProducts" =>
                    Len(last.categoryIDs) = NumCategories /\ Len(last.brandIDs) = NumBrands)

\* A review has been added to the last product.
C24_Witness ==
    /\ req.t = "call"
    /\ req.fn = "addProductReviews"
    /\ req.p = NumProducts
    /\ Len(last.productIDs) = NumProducts
    /\ last.err.t = "nil"

\* The identifiers of the products whose iteration was ended by a failure
\* of addCustomFields.
SkippedIDs(s) == {s.productIDs[k] : k \in s.skipped}

\* When a call of addCustomFields fails for the product at position p, the
\* failure is logged and the iteration for p is over: the loop is at the
\* next product or the run has ended with the completion message, it has
\* not been aborted.
CustomFieldsFailureEndsIteration ==
    [][\A p \in 1..NumProducts :
          Issues /\ StepFailed("addCustomFields", p)' =>
              /\ FailureLogged("addCustomFields", p)'
              /\ p \in last'.skipped
              /\ IterationEnded(last', p)]_vars

\* C25 as stated: when adding custom fields fails for a product p, the
\* iteration for p is over, and no later request mentions p, that is, no
\* later request is for the identifier of p.
C25_NoLaterRequestMentionsProduct ==
    /\ CustomFieldsFailureEndsIteration
    /\ [][Issues /\ PhaseRank(req'.fn) = 4 => req'.productID \notin SkippedIDs(last)]_vars

\* C25: in the seeding script, when adding custom fields fails for the
\* product at position p of productIDs, the failure is logged, none of
\* the remaining functions (images, videos, options and variants,
\* reviews, bulk pricing rules) is entered for that position and no
\* later request is made in its iteration, the loop goes on with the next
\* product and the run is not aborted.  A later request is for the
\* identifier of p only if the server gave a later product the same
\* identifier.
C25_CustomFieldsFailureSkipsProduct ==
    /\ CustomFieldsFailureEndsIteration
    /\ [][Issues => req'.p \notin last.skipped]_vars
    /\ [](last.p \in last.skipped => ~InProductLoop)
    /\ [][Issues /\ PhaseRank(req'.fn) = 4 /\ req'.productID \in SkippedIDs(last) =>
            \E k \in last.skipped : k < req'.p /\ last.productIDs[k] = last.productIDs[req'.p]]_vars

\* Adding custom fields has failed for the first product and the loop is
\* at the second.
C25_Witness ==
    /\ StepFailed("addCustomFields", 1)
    /\ FailureLogged("addCustomFields", 1)
    /\ last.skipped = {1}
    /\ last.p = 2
    /\ last.pc = FirstStep

\* The elements of a list.
Elements(q) == {q[k] : k \in 1..Len(q)}

\* The values of the option the script is creating, as they are kept
\* after a call: in values, or in the list that went into the map when
\* the call was the last of the option.
KeptValues(old, new) ==
    IF Len(new.created) > Len(old.created) THEN new.created[Len(new.created)] ELSE new.values

\* The option value number k of a create-variant request as it went on
\* the wire.
WireOptionValue(call, k) == call.sent[1].Body.o["option_values"].a[k]

\* C26: in addOptionsAndVariants the identifier the server returned for
\* an option is appended to optionIDs and the identifier it returned for
\* an option value is stored in the value that is kept; a failing option
\* or option-value call ends the function with the failure logged; a
\* create-variant request is issued only from the loop over the variants,
\* which is entered only after the last value of the last option was
\* created, with as many options created as were drawn and every option
\* with its values; each variant sent, in the call and on the wire, has
\* one option value per created option, in the order of creation, whose
\* OptionID is the identifier returned for that option and which is one of
\* the values kept for an option of that identifier.
C26_VariantsAfterOptionsAndValues ==
    /\ [][Issues /\ last.pc = "options" /\ req'.err.t = "nil" =>
            /\ last'.optionIDs = Append(last.optionIDs, req'.ret.Data.ID)
            /\ last'.pc = "optionValues"]_vars
    /\ [][Issues /\ last.pc = "optionValues" /\ req'.err.t = "nil" =>
            KeptValues(last, last') =
                Append(last.values,
                       [t |-> "OptionValue", ID |-> req'.ret.Data.ID,
                        OptionID |-> last.optionIDs[Len(last.optionIDs)],
                        SortOrder |-> last.j])]_vars
    /\ [][Issues /\ last.pc \in {"options", "optionValues"} /\ req'.err.t # "nil" =>
            /\ last'.pc \notin {"options", "optionValues", "variants"}
            /\ FailureLogged("addOptionsAndVariants", last.p)']_vars
    /\ [][Issues /\ req'.body.t = "Variant" => last.pc = "variants"]_vars
    /\ [][last.pc # "variants" /\ last'.pc = "variants" =>
            /\ Issues /\ last.pc = "optionValues" /\ req'.err.t = "nil"
            /\ last.i + 1 = last.n /\ last.j + 1 = last.numValues
            /\ Len(last'.optionIDs) = last.n /\ Len(last'.created) = last.n
            /\ \A k \in 1..last.n :
                  /\ Len(last'.created[k]) \in MinValues..MaxValues
                  /\ \A m \in 1..Len(last'.created[k]) :
                        /\ last'.created[k][m].OptionID = last'.optionIDs[k]
                        /\ last'.created[k][m].ID \in ServerIDs("OptionValue")]_vars
    /\ [][last.pc = "variants" /\ last'.pc = "variants" =>
            last'.optionIDs = last.optionIDs /\ last'.created = last.created]_vars
    /\ [][Issues /\ last.pc = "variants" =>
            /\ req'.body.t = "Variant"
            /\ Len(req'.sent) = 1
            /\ Len(req'.body.OptionValues) = Len(last.optionIDs)
            /\ Len(req'.sent[1].Body.o["option_values"].a) = Len(last.optionIDs)
            /\ \A k \in 1..Len(last.optionIDs) :
                  /\ req'.body.OptionValues[k].OptionID = last.optionIDs[k]
                  /\ \E m \in 1..Len(last.created) :
                        /\ last.optionIDs[m] = last.optionIDs[k]
                        /\ req'.body.OptionValues[k] \in Elements(last.created[m])
                  /\ WireOptionValue(req', k).o["option_id"] = JInt(last.optionIDs[k])
                  /\ WireOptionValue(req', k).o["id"] = JInt(req'.body.OptionValues[k].ID)]_vars

\* A variant with the values of two options of different identifiers has
\* been created.
C26_Witness ==
    /\ req.t = "call" /\ req.body.t = "Variant" /\ req.err.t = "nil"
    /\ Len(req.body.OptionValues) = 2
    /\ req.body.OptionValues[1].OptionID = 3
    /\ req.body.OptionValues[2].OptionID = 4
    /\ \A k \in 1..2 : req.body.OptionValues[k].ID \in ServerIDs("OptionValue")

\* The call was a service method with a typed envelope and it returned.
ReturnedEnvelope == IsService /\ last.vIn.t = "envelope" /\ ~crashed

\* An envelope as new(T) makes it: identifier 0, no data, no pagination.
IsZeroEnvelope(e) ==
    /\ e.t = "envelope"
    /\ e.Meta = ZeroMeta
    /\ IF e.list THEN e.Data = <<>> ELSE e.Data = ZeroOf(e.of) /\ e.Data.ID = 0

\* C27: a service method with a typed envelope returns a nil envelope
\* exactly when NewRequest failed, and then no request was sent and the
\* error is the one of NewRequest; whenever Do ran and returned an error
\* the envelope returned with the error is not nil; after a transport
\* failure or a status outside 200..299 it is the envelope new(T) made,
\* with zero values only.
C27_NilEnvelopeOnlyWithoutRequest ==
    ReturnedEnvelope =>
        /\ last.ret = Nil <=> ~DoRan
        /\ last.ret = Nil <=> ~RequestBuildable
        /\ last.ret = Nil => last.err.t # "nil" /\ Len(last.sent) = 0
        /\ DoRan => last.ret.t = "envelope" /\ last.ret.of = last.vIn.of
                     /\ Len(last.sent) = 1
        /\ (DoRan /\ (last.srv.t = "neterr" \/ Non2xx)) =>
                last.err.t # "nil" /\ IsZeroEnvelope(last.ret)

\* A create call got a status outside 200..299 with a body that holds a
\* record: the envelope returned with the ErrorResponse is zero.
C27_Witness ==
    /\ ReturnedEnvelope
    /\ last.op = "CategoriesService.CreateContext"
    /\ Non2xx
    /\ HasKey(last.srv.Body.doc, "data")
    /\ last.err.t = "ErrorResponse"
    /\ IsZeroEnvelope(last.ret)

\* C28: Do leaves its target as it was on every failure found before the
\* decoding: after a transport failure and after every status outside
\* 200..299 the target, an envelope or a byte sink, is what was passed
\* in, whatever the body of the response holds, and the call returns an
\* error.
C28_TargetUntouchedBeforeDecoding ==
    (DoRan /\ (last.srv.t = "neterr" \/ Non2xx)) =>
        /\ last.do.v = last.vIn
        /\ last.ret = last.vIn
        /\ last.vIn.t = "writer" => last.ret.buf = <<>>
        /\ last.err.t # "nil"
        /\ last.do.err = last.err

\* Do was called with a byte sink and got status 422 with a JSON body:
\* the sink is empty.
C28_Witness ==
    /\ last.op = "Do"
    /\ last.vIn = NewWriter
    /\ Non2xx /\ last.srv.StatusCode = 422
    /\ last.srv.Body.doc.t = "obj"
    /\ last.ret = NewWriter

\* The body of the response is empty or cannot be read.
NothingRead == last.srv.Body.broken \/ last.srv.Body.doc.t = "empty"

\* C29: for a response with a status outside 200..299 whose body is
\* empty or cannot be read, CheckResponse returns an ErrorResponse that
\* holds the response (status code, method and URL of the request) and
\* whose Status, Title, Type and Errors are zero; the call fails with it,
\* never with a decode error.
C29_ErrorResponseWithoutBody ==
    (Non2xx /\ NothingRead) =>
        /\ last.do.checked
        /\ last.do.check.t = "ErrorResponse"
        /\ last.do.check.Response.t = "resp"
        /\ last.do.check.Response.StatusCode = last.srv.StatusCode
        /\ last.do.check.Response.Request = last.sent[1]
        /\ last.do.check.Status = 0 /\ last.do.check.Title = ""
        /\ last.do.check.Type = "" /\ last.do.check.Errors = <<>>
        /\ last.err = last.do.check

\* A response with status 500 whose body cannot be read.
C29_Witness ==
    /\ Non2xx /\ last.srv.StatusCode = 500
    /\ last.srv.Body.broken
    /\ last.err.t = "ErrorResponse"
    /\ last.err.Response.StatusCode = 500
    /\ last.err.Response.Request.Method = "GET"

\* The run is over: log.Fatalf has ended the process or main has logged
\* the completion message and returned.
Terminated == last.pc \in {"exit", "finished"}

\* The place of an API call in the run: phase, product, function, and
\* inside the function the loop (in addOptionsAndVariants the loop over
\* the variants comes after the loop over the options) and its indices
\* (an option comes before its values).
Position(call) ==
    <<PhaseRank(call.fn), call.p, StepRank(call.fn),
      IF call.body.t = "Variant" THEN 1 ELSE 0,
      call.i,
      IF call.body.t = "OptionValue" THEN call.j + 1 ELSE 0>>

\* a comes before b in lexicographic order.
Before(a, b) ==
    \E k \in 1..Len(a) : a[k] < b[k] /\ \A m \in 1..(k - 1) : a[m] = b[m]

\* The index of the call is below the bound of its loop.
WithinLoopBound(call) ==
    CASE call.fn = "createCategories" -> call.i < NumCategories
      [] call.fn = "createBrands" -> call.i < NumBrands
      [] call.fn = "createProducts" -> call.i < NumProducts
      [] call.fn = "addCustomFields" -> call.i < NumCustomFields
      [] call.fn = "addProductImages" -> call.i < MaxImages
      [] call.fn = "addProductVideos" -> call.i < MaxVideos
      [] call.fn = "addOptionsAndVariants" ->
            (CASE call.body.t = "ProductOption" -> call.i < MaxOptions
               [] call.body.t = "OptionValue" -> call.i < MaxOptions /\ call.j < MaxValues
               [] call.body.t = "Variant" -> call.i < MaxVariants)
      [] call.fn = "addProductReviews" -> call.i < MaxReviews
      [] call.fn = "addBulkPricingRules" -> call.i < Len(tiers)

\* C30: when every API call returns, the seeding run terminates: every
\* API call has an index below the bound of its loop (NumCategories,
\* NumBrands, NumProducts, NumCustomFields, MaxImages, MaxVideos,
\* MaxOptions options with at most MaxValues values each, MaxVariants,
\* MaxReviews, 3 pricing rules) and is for one of the NumProducts
\* products; every API call has a place in the run after the place of
\* the call before it, so none is issued twice; the run reaches its end
\* and stays there, after log.Fatalf following a failed creation call or
\* with the completion message logged, and makes no call afterwards.
C30_RunTerminates ==
    /\ [](req.t = "call" =>
            /\ WithinLoopBound(req)
            /\ req.p \in 0..NumProducts
            /\ Len(req.sent) = 1)
    /\ [][Issues /\ req.t = "call" => Before(Position(req), Position(req'))]_vars
    /\ [][~Issues => req' = req]_vars
    /\ [](last.pc = "exit" => CreationFailed /\ ~Completed)
    /\ [](last.pc = "finished" => Completed)
    /\ [][Terminated => last' = last /\ req' = req]_vars
    /\ <>[]Terminated

\* The run has ended with the completion message after the third pricing
\* rule of the last product.
C30_Witness ==
    /\ last.pc = "finished"
    /\ Completed
    /\ req.t = "call"
    /\ req.fn = "addBulkPricingRules"
    /\ req.p = NumProducts
    /\ req.i = 2

====
